---- MODULE Spec2Model ----
(***************************************************************************)
(* The cube network stack of rocket-rover: data-link framing, network      *)
(* packets with hop-by-hop forwarding, and the stop-and-wait transport     *)
(* layer (transport_tx / transport_rx) of src/cube/common/network.c.       *)
(*                                                                         *)
(* Byte arrays are sequences; C index k is TLA+ index k+1 (see At).        *)
(* A node runs single-threaded and blocks only inside network_rx, so one   *)
(* action is the code a node runs from one blocking receive to the next.   *)
(***************************************************************************)
EXTENDS Integers, Sequences, FiniteSets, TLC

\* ------------------------------------------------------------------ bounds
\* Longest message the application hands to transport_tx under Spec; the
\* lengths tried are 0, 1 and MaxMsgLen (two DATA segments).
MaxMsgLen == 22
\* Under IdealSpec every length 0..MaxIdealLen (up to three DATA segments),
\* and LongLen - 1 and LongLen, whose last DATA segments have offsets above 255.
MaxIdealLen == 50
LongLen == 300
\* Frames the transceiver holds for a node that is blocked in a receive.
MaxInbox == 2
\* Channel faults (a lost frame, a duplicated frame, a receive error) in one
\* behaviour of Spec.
MaxFaults == 1
\* Calls of transport_tx / transport_rx an application makes under Spec.
MaxTxCalls == 1
MaxRxCalls == 2
\* The short receive buffer an application may pass to transport_rx.
SmallBuf == 10
\* Longest payload an application hands to network_tx directly, and the
\* number of such calls: a forwarded packet of that length still fits a frame.
MaxNetLen == 25
MaxNetTx == 2
\* Longest buffer a caller passes to data_link_rx on its own.
MaxDlBuf == 31

\* ------------------------------------------------------- program constants
TRX_PAYLOAD_LENGTH == 32
FRAME_HEADER_LEN == 1
PACKET_HEADER_LEN == 3
MAX_PACKET_LEN == TRX_PAYLOAD_LENGTH - FRAME_HEADER_LEN
MAX_SEGMENT_LEN == MAX_PACKET_LEN - PACKET_HEADER_LEN
START_SEGMENT_HEADER_LEN == 7
DATA_SEGMENT_HEADER_LEN == 7
END_SEGMENT_HEADER_LEN == 5
ACK_SEGMENT_HEARDER_LEN == 5
SEGID_START_OF_MESSAGE == 7
SEGID_DATA == 13
SEGID_END_OF_MESSAGE == 9
SEGID_ACK == 10
TRANSPORT_TX_ATTEMPT_LIMIT == 10
\* Width of int on the ATmega328p target, and of the simulation host.
INT_BITS == 16
HOST_INT_BITS == 32

\* RXST_Idle, RXST_Receiving
RXST_Idle == "RXST_Idle"
RXST_Receiving == "RXST_Receiving"

\* -------------------------------------------------------------- the nodes
\* Network addresses of the three cubes; a cube's port, network address and
\* data-link address are fixed at compile time.
NodeA == 10
NodeB == 11
NodeC == 12
\* The rover, whose port is 0x3C.
Rover == 60
Nodes == {NodeA, NodeB, NodeC, Rover}

MY_PORT(n) == n
MY_NETWORK_ADDR(n) == n

\* port -> network address (ports are globally unique).
resolve_network_addr(port) == port

\* network address -> 32-bit transceiver address (0x0A -> 0x0A0A0A0A).
resolve_data_link_addr(net_addr) == net_addr * 16843009

MY_DATA_LINK_ADDR(n) == resolve_data_link_addr(MY_NETWORK_ADDR(n))

\* ------------------------------------------------------------ byte helpers
\* C array read a[k].
At(a, k) == a[k + 1]

Min(a, b) == IF a < b THEN a ELSE b

RECURSIVE Pow2(_)
Pow2(n) == IF n = 0 THEN 1 ELSE 2 * Pow2(n - 1)

\* The first n elements of s (all of s when it is shorter).
Take(s, n) == SubSeq(s, 1, Min(n, Len(s)))

Zeros(n) == [i \in 1..n |-> 0]

\* (x & 0xFF00) >> 8 and (x & 0x00FF) >> 0 of a uint16_t.
HiByte(x) == (x \div 256) % 256
LoByte(x) == x % 256

\* x == 0 ? 1 : 0
Toggle(x) == IF x = 0 THEN 1 ELSE 0

\* (x << n) truncated to uint16_t, for a shift count the build carries out.
Shl16(x, n) == IF n >= 16 THEN 0 ELSE (x * Pow2(n)) % 65536

\* The values `hi << 8 + lo` can take. C parses it as hi << (8 + lo).  A
\* shift by the width of int or more is undefined: the AVR build shifts in a
\* loop (every bit leaves, giving 0), the host build masks the count.
ShiftLenOutcomes(hi, lo) ==
    LET n == 8 + lo
    IN  IF n < INT_BITS
        THEN {Shl16(hi, n)}
        ELSE {0, Shl16(hi, n % HOST_INT_BITS)}

\* (hi << 8) + lo, as the DATA offset is read.
Be16(hi, lo) == (hi * 256 + lo) % 65536

\* The application's message of length L: distinct non-zero bytes, so that a
\* byte written at a wrong offset or left unwritten shows.
MessageOf(L, seed) == [i \in 1..L |-> ((seed * 50 + i * 7) % 251) + 1]

\* ----------------------------------------------------- transport segments
\* START_OF_MESSAGE as transport_tx builds it.
StartSegment(seq, dest_port, my_port, message_len) ==
    << START_SEGMENT_HEADER_LEN, seq, dest_port, my_port,
       SEGID_START_OF_MESSAGE, HiByte(message_len), LoByte(message_len) >>

\* A DATA segment that takes all that remains.
ThisPayloadLenWhole(remaining) == remaining

\* this_payload_len of the DATA segment built with bytes_remaining left.
ThisPayloadLen(remaining) ==
    IF remaining > MAX_SEGMENT_LEN - DATA_SEGMENT_HEADER_LEN
    THEN MAX_SEGMENT_LEN - DATA_SEGMENT_HEADER_LEN
    ELSE remaining

\* DATA as transport_tx builds it: the payload is message[start_address ..].
DataSegment(seq, dest_port, my_port, msg, remaining) ==
    LET this_payload_len == ThisPayloadLen(remaining)
        start_address == (Len(msg) - remaining) % 65536
    IN  << this_payload_len + DATA_SEGMENT_HEADER_LEN, seq, dest_port, my_port,
           SEGID_DATA, HiByte(start_address), LoByte(start_address) >>
        \o [i \in 1..this_payload_len |-> msg[(i - 1) + start_address + 1]]

\* END_OF_MESSAGE as transport_tx builds it (5 bytes are handed to network_tx).
EndSegment(seq, dest_port, my_port) ==
    << END_SEGMENT_HEADER_LEN, seq, dest_port, my_port, SEGID_END_OF_MESSAGE >>

\* An acknowledgement that carries the sequence bit it received.
AckSegmentEcho(seg, my_port) ==
    << ACK_SEGMENT_HEARDER_LEN, At(seg, 1), At(seg, 3), my_port, SEGID_ACK >>

\* The acknowledgement transport_attempt_rx builds for a received segment.
AckSegment(seg, my_port) ==
    << ACK_SEGMENT_HEARDER_LEN, Toggle(At(seg, 1)), At(seg, 3), my_port, SEGID_ACK >>

\* ------------------------------------------------- network and data link
\* NetworkPacket whose length byte leaves the header out.
NetworkPacketBareLen(payload, payload_len, dest_network_addr, src_network_addr) ==
    << payload_len % 256, dest_network_addr, src_network_addr >>
    \o Take(payload, Min(payload_len, MAX_PACKET_LEN - PACKET_HEADER_LEN))

\* The initialised bytes of the packet network_tx builds: the header and the
\* payload bytes it copies (i < payload_len && i < MAX_PACKET_LEN - header).
NetworkPacket(payload, payload_len, dest_network_addr, src_network_addr) ==
    << (payload_len + PACKET_HEADER_LEN) % 256, dest_network_addr, src_network_addr >>
    \o Take(payload, Min(payload_len, MAX_PACKET_LEN - PACKET_HEADER_LEN))

\* DataLinkFrame without the zeroing of payload_zero_pad: the bytes after
\* the payload hold what the stack held.
DataLinkFrameUnpadded(payload, payload_len) ==
    [i \in 1..TRX_PAYLOAD_LENGTH |->
        IF i = 1 THEN payload_len
        ELSE IF (i - 2) < payload_len /\ (i - 2) < TRX_PAYLOAD_LENGTH - FRAME_HEADER_LEN
                  /\ (i - 1) <= Len(payload)
             THEN payload[i - 1]
             ELSE 170]

\* The zero-padded frame data_link_tx hands to the transceiver.
DataLinkFrame(payload, payload_len) ==
    [i \in 1..TRX_PAYLOAD_LENGTH |->
        IF i = 1 THEN payload_len
        ELSE IF (i - 2) < payload_len /\ (i - 2) < TRX_PAYLOAD_LENGTH - FRAME_HEADER_LEN
                  /\ (i - 1) <= Len(payload)
             THEN payload[i - 1]
             ELSE 0]

\* What data_link_rx copies from a received frame into a buf_len buffer.
data_link_rx(rxframe, buf_len) ==
    [i \in 1..Min(buf_len, TRX_PAYLOAD_LENGTH - FRAME_HEADER_LEN) |->
        rxframe[i + FRAME_HEADER_LEN]]

\* The packet network_rx reads from a frame.
PacketOf(rxframe) == data_link_rx(rxframe, MAX_PACKET_LEN)

\* The payload bytes network_rx copies to its caller's buf_len buffer
\* (i < packet_len - header && i < buf_len), and the length it returns.
NetworkPayload(packet, buf_len) ==
    LET n == At(packet, 0) - PACKET_HEADER_LEN
    IN  [i \in 1..Min(Min(n, buf_len), Len(packet) - PACKET_HEADER_LEN) |->
            packet[i + PACKET_HEADER_LEN]]

\* next_hop of cube A, the table in the source.  An address outside the
\* table leaves next_hop_addr uninitialised: any address, or none (0).
next_hop(final_addr) ==
    IF final_addr \in {10, 11, 12, 13} THEN {11} ELSE Nodes \cup {0}

\* The next-hop table compiled into node n: A routes every cube address
\* through B and hears the rover directly, B and the rover reach every node
\* directly, C routes everything through B.
NextHops(n, final_addr) ==
    IF n = NodeA
    THEN (IF final_addr = Rover THEN {Rover} ELSE next_hop(final_addr))
    ELSE IF n \in {NodeB, Rover}
    THEN (IF final_addr \in Nodes THEN {final_addr} ELSE Nodes \cup {0})
    ELSE {NodeB}

\* ------------------------------------------------------------------ state
VARIABLES
    pc,                 \* per node: "idle", "tx" (transport_tx, blocked in
                        \* network_rx for an ACK), "rx" (transport_rx, blocked)
    inbox,              \* per node: frames the transceiver has received
    message,            \* transport_tx: message (message_len is its length)
    dest_port,          \* transport_tx: dest_port
    current_seq_num,    \* transport_tx: current_seq_num
    bytes_remaining,    \* transport_tx: bytes_remaining
    segment,            \* transport_tx: the bytes of segment handed to network_tx
    transmit_attempts,  \* transport_keep_trying_to_tx: transmit_attempts
    result,             \* transport_keep_trying_to_tx: result of the last attempt
    hopefully_an_ack,   \* transport_attempt_tx: hopefully_an_ack
    tx_result,          \* what the last transport_tx call returned
    state,              \* transport_rx: state
    buffer,             \* transport_rx: the caller's buffer (buf_len is its length)
    out_message_len,    \* transport_rx: *message_len
    out_source_port,    \* transport_rx: *source_port
    rx_seq,             \* transport_attempt_rx: static rx_seq
    rx_result,          \* what the last transport_rx call returned
    rx_segment,         \* transport_rx: segment, as the last attempt filled it
    ack_seg,            \* transport_attempt_rx: ack_seg
    attempt_rx_result,  \* transport_keep_trying_to_rx: result of the last attempt
    data_copied,        \* history: the DATA case of the current transport_rx
                        \* call has run
    delivered,          \* history: << the buffer as it was when transport_rx
                        \* last returned Success >>, empty before that
    tx_count,           \* history: network_tx calls of the current keep-trying call
    tx_calls,           \* history: transport_tx calls made
    rx_calls,           \* history: transport_rx calls made
    missed,             \* history: identifiers of the segments sent to a node
                        \* that was not receiving
    faults,             \* history: what the channel and the transceivers did
    net_tx_result,      \* transport_attempt_tx: tx_result, what network_tx reported
    net_tx_reports,     \* the outcomes the transceiver may report for a transmit
    net_payload,        \* history: the payload an application gave to network_tx
    net_tx_calls,       \* history: network_tx calls made by an application
    net_buffer,         \* network_rx: the bytes written to the caller's buffer
    net_return,         \* network_rx: the payload length returned
    trx_outcome,        \* data_link_rx: outcome of trx_receive_payload
    dl_buffer,          \* data_link_rx: the caller's buffer
    dl_return,          \* data_link_rx: the value returned
    dl_payload,         \* history: the payload a caller gave to data_link_tx
    dl_frame,           \* data_link_tx: payload_zero_pad, as handed to the transceiver
    trx_tx_outcome,     \* data_link_tx: what trx_transmit_payload reported
    dl_tx_return,       \* data_link_tx: the value returned
    wire                \* history: the segments heard on the radio, in order

txVars == << message, dest_port, current_seq_num, bytes_remaining, segment,
             transmit_attempts, result, hopefully_an_ack, tx_result, tx_count,
             tx_calls, net_tx_result >>
rxVars == << state, buffer, out_message_len, out_source_port, rx_seq, rx_result,
             rx_segment, ack_seg, attempt_rx_result, rx_calls, data_copied,
             delivered >>
netVars == << net_payload, net_tx_calls, net_buffer, net_return >>
dlRxVars == << trx_outcome, dl_buffer, dl_return >>
dlTxVars == << dl_payload, dl_frame, trx_tx_outcome, dl_tx_return >>
dlVars == << dlRxVars, dlTxVars >>
vars == << pc, inbox, txVars, rxVars, missed, faults, net_tx_reports, netVars,
           dlVars, wire >>

\* A value no code has written yet.
Unset == -1

NoFaults == [lostAck |-> 0, lostSeg |-> 0, dup |-> 0, rxErr |-> 0, txErr |-> 0]

FaultCount == faults.lostAck + faults.lostSeg + faults.dup + faults.rxErr
              + faults.txErr

\* Every node after power-up, but for the static rx_seq.
PowerUp ==
    /\ pc = [n \in Nodes |-> "idle"]
    /\ inbox = [n \in Nodes |-> << >>]
    /\ message = [n \in Nodes |-> << >>]
    /\ dest_port = [n \in Nodes |-> Unset]
    /\ current_seq_num = [n \in Nodes |-> 0]
    /\ bytes_remaining = [n \in Nodes |-> 0]
    /\ segment = [n \in Nodes |-> << >>]
    /\ transmit_attempts = [n \in Nodes |-> 0]
    /\ result = [n \in Nodes |-> "none"]
    /\ hopefully_an_ack = [n \in Nodes |-> << >>]
    /\ tx_result = [n \in Nodes |-> "none"]
    /\ state = [n \in Nodes |-> RXST_Idle]
    /\ buffer = [n \in Nodes |-> << >>]
    /\ out_message_len = [n \in Nodes |-> Unset]
    /\ out_source_port = [n \in Nodes |-> Unset]
    /\ rx_result = [n \in Nodes |-> "none"]
    /\ rx_segment = [n \in Nodes |-> << >>]
    /\ ack_seg = [n \in Nodes |-> << >>]
    /\ attempt_rx_result = [n \in Nodes |-> "none"]
    /\ data_copied = [n \in Nodes |-> FALSE]
    /\ delivered = [n \in Nodes |-> << >>]
    /\ tx_count = [n \in Nodes |-> 0]
    /\ tx_calls = [n \in Nodes |-> 0]
    /\ rx_calls = [n \in Nodes |-> 0]
    /\ missed = {}
    /\ faults = NoFaults
    /\ net_tx_result = [n \in Nodes |-> "none"]
    /\ net_payload = [n \in Nodes |-> << >>]
    /\ net_tx_calls = [n \in Nodes |-> 0]
    /\ net_buffer = [n \in Nodes |-> << >>]
    /\ net_return = [n \in Nodes |-> Unset]
    /\ trx_outcome = "none"
    /\ dl_buffer = << >>
    /\ dl_return = "none"
    /\ dl_payload = << >>
    /\ dl_frame = << >>
    /\ trx_tx_outcome = "none"
    /\ dl_tx_return = "none"
    /\ wire = << >>

\* The transceiver reports every transmission as successful.
ReportsSuccess == net_tx_reports = {"NETWORK_TX_SUCCESS"}

Init == PowerUp /\ rx_seq = [n \in Nodes |-> 0] /\ ReportsSuccess

\* ------------------------------------------------------------ transceiver
\* The node whose transceiver has address addr, if any.
NodeAt(addr) == {m \in Nodes : MY_DATA_LINK_ADDR(m) = addr}

\* trx_transmit_payload: the frame reaches the addressed node when that node
\* is receiving and its transceiver has room; otherwise nobody hears it.
Radio(inb, frame, addr) ==
    IF \E m \in NodeAt(addr) : pc[m] # "idle" /\ Len(inb[m]) < MaxInbox
    THEN LET m == CHOOSE m \in NodeAt(addr) : TRUE
         IN  [inb EXCEPT ![m] = Append(@, frame)]
    ELSE inb

\* network_tx followed by data_link_tx, through next hop `hop`.
network_tx(inb, payload, payload_len, dest_network_addr, src_network_addr, hop) ==
    Radio(inb,
          DataLinkFrame(NetworkPacket(payload, payload_len, dest_network_addr,
                                      src_network_addr),
                        payload_len + PACKET_HEADER_LEN),
          resolve_data_link_addr(hop))

\* The segment carried by a frame, as a MAX_SEGMENT_LEN buffer receives it.
SegmentOf(frame) == NetworkPayload(PacketOf(frame), MAX_SEGMENT_LEN)

\* packet[1] of the frame at the head of n's transceiver.
HeadDest(n) == At(PacketOf(Head(inbox[n])), 1)

\* Nothing is on its way to n: its transceiver is empty and no receiving
\* node still has a frame to act on.
Quiescent(n) ==
    /\ inbox[n] = << >>
    /\ \A m \in Nodes \ {n} : pc[m] = "idle" \/ inbox[m] = << >>

\* The history of segments nobody heard, after sending seg with outcome sent.
Missed(seg, sent, inb) == IF sent = inb THEN missed \cup {At(seg, 4)} ELSE missed

\* ------------------------------------------------------------ transmitter
\* ClassifyAck without the comparison of the sequence bit.
ClassifyAckAnyBit(ack, seq) ==
    IF At(ack, 4) # SEGID_ACK THEN "TRANSPORT_ATTEMPT_TX_NOT_AN_ACK"
    ELSE "TRANSPORT_ATTEMPT_TX_SUCCESS"

\* ClassifyAck without the test of the segment identifier.
ClassifyAckAnyId(ack, seq) ==
    IF At(ack, 1) = seq THEN "TRANSPORT_ATTEMPT_TX_OLD_ACK"
    ELSE "TRANSPORT_ATTEMPT_TX_SUCCESS"

\* What transport_attempt_tx returns for the segment network_rx delivered.
ClassifyAck(ack, seq) ==
    IF At(ack, 4) # SEGID_ACK THEN "TRANSPORT_ATTEMPT_TX_NOT_AN_ACK"
    ELSE IF At(ack, 1) = seq THEN "TRANSPORT_ATTEMPT_TX_OLD_ACK"
    ELSE "TRANSPORT_ATTEMPT_TX_SUCCESS"

\* AttemptResult with the check of tx_result that the source has commented
\* out.
AttemptResultTxChecked(tx_res, rx_class) ==
    IF tx_res = "NETWORK_TX_FAILURE"
    THEN "TRANSPORT_ATTEMPT_TX_TRANSMIT_FAILED"
    ELSE rx_class

\* What transport_attempt_tx returns when network_tx reported tx_res and the
\* receive that followed was classified rx_class: tx_result is not looked at.
AttemptResult(tx_res, rx_class) == rx_class

\* ReachedLimit with >= for >.
ReachedLimitOffByOne(attempts) == attempts >= TRANSPORT_TX_ATTEMPT_LIMIT

\* transmit_attempts > TRANSPORT_TX_ATTEMPT_LIMIT
ReachedLimit(attempts) == attempts > TRANSPORT_TX_ATTEMPT_LIMIT

\* One pass of the loop of transport_keep_trying_to_tx for segment seg, from
\* transmit_attempts++ up to the point where transport_attempt_tx blocks in
\* network_rx, or up to the return of transport_tx at the attempt limit.
KeepTrying(n, seg, attempts, dp, inb, cnt) ==
    /\ transmit_attempts' = [transmit_attempts EXCEPT ![n] = attempts + 1]
    /\ segment' = [segment EXCEPT ![n] = seg]
    /\ IF ReachedLimit(attempts + 1)
       THEN /\ pc' = [pc EXCEPT ![n] = "idle"]
            /\ tx_result' = [tx_result EXCEPT ![n] = "TRANSPORT_TX_REACHED_ATTEMPT_LIMIT"]
            /\ inbox' = inb
            /\ tx_count' = [tx_count EXCEPT ![n] = cnt]
            /\ missed' = missed
            /\ net_tx_result' = net_tx_result
       ELSE /\ pc' = [pc EXCEPT ![n] = "tx"]
            /\ tx_result' = [tx_result EXCEPT ![n] = "none"]
            /\ tx_count' = [tx_count EXCEPT ![n] = cnt + 1]
            /\ \E hop \in NextHops(n, resolve_network_addr(dp)) :
                 LET sent == network_tx(inb, seg, Len(seg), resolve_network_addr(dp),
                                        MY_NETWORK_ADDR(n), hop)
                 IN  /\ inbox' = sent
                     /\ missed' = Missed(seg, sent, inb)
            /\ \E report \in net_tx_reports :
                 net_tx_result' = [net_tx_result EXCEPT ![n] = report]

\* NextSeq that leaves the sequence number as it is.
NextSeqStuck(seq) == seq

\* current_seq_num == 0 ? 1 : 0 after an acknowledged segment.
NextSeq(seq) == Toggle(seq)

\* The sequence number transport_tx starts a message with.
FirstSeq == 0

\* transport_tx after transport_keep_trying_to_tx returned SUCCESS: toggle the
\* sequence number, then the next DATA segment, the END_OF_MESSAGE, or return.
AfterSuccess(n, inb) ==
    LET seq == NextSeq(current_seq_num[n])
    IN  /\ current_seq_num' = [current_seq_num EXCEPT ![n] = seq]
        /\ IF At(segment[n], 4) = SEGID_END_OF_MESSAGE
           THEN /\ pc' = [pc EXCEPT ![n] = "idle"]
                /\ tx_result' = [tx_result EXCEPT ![n] = "TRANSPORT_TX_SUCCESS"]
                /\ inbox' = inb
                /\ UNCHANGED << bytes_remaining, segment, transmit_attempts,
                                tx_count, missed, net_tx_result >>
           ELSE IF bytes_remaining[n] > 0
           THEN /\ bytes_remaining' =
                      [bytes_remaining EXCEPT ![n] = @ - ThisPayloadLen(@)]
                /\ KeepTrying(n, DataSegment(seq, dest_port[n], MY_PORT(n),
                                             message[n], bytes_remaining[n]),
                              0, dest_port[n], inb, 0)
           ELSE /\ UNCHANGED bytes_remaining
                /\ KeepTrying(n, EndSegment(seq, dest_port[n], MY_PORT(n)),
                              0, dest_port[n], inb, 0)

\* The application calls transport_tx(message, message_len, dest_port): the
\* START_OF_MESSAGE is built with sequence number 0 and transmitted.
transport_tx(n, msg, dp) ==
    /\ pc[n] = "idle"
    /\ tx_calls' = [tx_calls EXCEPT ![n] = @ + 1]
    /\ message' = [message EXCEPT ![n] = msg]
    /\ dest_port' = [dest_port EXCEPT ![n] = dp]
    /\ current_seq_num' = [current_seq_num EXCEPT ![n] = FirstSeq]
    /\ bytes_remaining' = [bytes_remaining EXCEPT ![n] = Len(msg)]
    /\ result' = [result EXCEPT ![n] = "none"]
    /\ KeepTrying(n, StartSegment(FirstSeq, dp, MY_PORT(n), Len(msg)), 0, dp,
                  inbox, 0)
    /\ UNCHANGED << hopefully_an_ack, rxVars >>

\* transport_attempt_tx_rx that acknowledges a segment that is not an ACK, as
\* transport_attempt_rx would, before it tries its own segment again.
transport_attempt_tx_rx_acks(n) ==
    /\ pc[n] = "tx"
    /\ inbox[n] # << >>
    /\ HeadDest(n) = MY_NETWORK_ADDR(n)
    /\ LET ack == NetworkPayload(PacketOf(Head(inbox[n])), ACK_SEGMENT_HEARDER_LEN)
           r == AttemptResult(net_tx_result[n], ClassifyAck(ack, current_seq_num[n]))
           rest == [inbox EXCEPT ![n] = Tail(@)]
           to == resolve_network_addr(At(ack, 3))
       IN  /\ hopefully_an_ack' = [hopefully_an_ack EXCEPT ![n] = ack]
           /\ result' = [result EXCEPT ![n] = r]
           /\ IF r = "TRANSPORT_ATTEMPT_TX_SUCCESS"
              THEN AfterSuccess(n, rest)
              ELSE /\ \E hop \in NextHops(n, to) :
                        KeepTrying(n, segment[n], transmit_attempts[n], dest_port[n],
                                   IF r = "TRANSPORT_ATTEMPT_TX_NOT_AN_ACK"
                                   THEN network_tx(rest, AckSegment(ack, MY_PORT(n)),
                                                   ACK_SEGMENT_HEARDER_LEN, to,
                                                   MY_NETWORK_ADDR(n), hop)
                                   ELSE rest,
                                   tx_count[n])
                   /\ UNCHANGED << current_seq_num, bytes_remaining >>
    /\ UNCHANGED << message, dest_port, tx_calls, rxVars >>

\* network_rx in transport_attempt_tx delivers a segment addressed to n.
transport_attempt_tx_rx(n) ==
    /\ pc[n] = "tx"
    /\ inbox[n] # << >>
    /\ HeadDest(n) = MY_NETWORK_ADDR(n)
    /\ LET ack == NetworkPayload(PacketOf(Head(inbox[n])), ACK_SEGMENT_HEARDER_LEN)
           r == AttemptResult(net_tx_result[n], ClassifyAck(ack, current_seq_num[n]))
       IN  /\ hopefully_an_ack' = [hopefully_an_ack EXCEPT ![n] = ack]
           /\ result' = [result EXCEPT ![n] = r]
           /\ IF r = "TRANSPORT_ATTEMPT_TX_SUCCESS"
              THEN AfterSuccess(n, [inbox EXCEPT ![n] = Tail(@)])
              ELSE /\ KeepTrying(n, segment[n], transmit_attempts[n], dest_port[n],
                                 [inbox EXCEPT ![n] = Tail(@)], tx_count[n])
                   /\ UNCHANGED << current_seq_num, bytes_remaining >>
    /\ UNCHANGED << message, dest_port, tx_calls, rxVars >>

\* network_rx in transport_attempt_tx times out: NOT_ACKNOWLEDGED, retry.
transport_attempt_tx_timeout(n) ==
    /\ pc[n] = "tx"
    /\ inbox[n] = << >>
    /\ result' = [result EXCEPT ![n] =
                      AttemptResult(net_tx_result[n],
                                    "TRANSPORT_ATTEMPT_TX_NOT_ACKNOWLEDGED")]
    /\ KeepTrying(n, segment[n], transmit_attempts[n], dest_port[n], inbox,
                  tx_count[n])
    /\ UNCHANGED << message, dest_port, current_seq_num, bytes_remaining,
                    hopefully_an_ack, tx_calls, rxVars >>

\* transport_attempt_tx_error that treats the error as one more failed
\* attempt.
transport_attempt_tx_error_retries(n) ==
    /\ pc[n] = "tx"
    /\ result' = [result EXCEPT ![n] = "TRANSPORT_ATTEMPT_TX_ERROR"]
    /\ KeepTrying(n, segment[n], transmit_attempts[n], dest_port[n], inbox,
                  tx_count[n])
    /\ UNCHANGED << message, dest_port, current_seq_num, bytes_remaining,
                    hopefully_an_ack, tx_calls, rxVars >>

\* transport_attempt_tx_error after which transport_tx carries on with its
\* next segment, as if the segment had been acknowledged.
transport_attempt_tx_error_ignored(n) ==
    /\ pc[n] = "tx"
    /\ result' = [result EXCEPT ![n] = "TRANSPORT_ATTEMPT_TX_ERROR"]
    /\ AfterSuccess(n, inbox)
    /\ UNCHANGED << message, dest_port, hopefully_an_ack, tx_calls, rxVars >>

\* network_rx in transport_attempt_tx reports an error: transport_tx returns
\* TRANSPORT_TX_ERROR at once.
transport_attempt_tx_error(n) ==
    /\ pc[n] = "tx"
    /\ result' = [result EXCEPT ![n] = "TRANSPORT_ATTEMPT_TX_ERROR"]
    /\ pc' = [pc EXCEPT ![n] = "idle"]
    /\ tx_result' = [tx_result EXCEPT ![n] = "TRANSPORT_TX_ERROR"]
    /\ UNCHANGED << inbox, message, dest_port, current_seq_num, bytes_remaining,
                    segment, transmit_attempts, hopefully_an_ack, tx_count,
                    tx_calls, net_tx_result, rxVars, missed >>

\* --------------------------------------------------------------- receiver
\* SyncSeq that synchronises on every segment, not only START_OF_MESSAGE.
SyncSeqEverySegment(seg, seq) == At(seg, 1)

\* SyncSeq that never synchronises.
SyncSeqNever(seg, seq) == seq

\* rx_seq after the START_OF_MESSAGE synchronisation of transport_attempt_rx.
SyncSeq(seg, seq) == IF At(seg, 4) = SEGID_START_OF_MESSAGE THEN At(seg, 1) ELSE seq

\* AdvanceRxSeq that forgets to advance.
AdvanceRxSeqForgotten(seq) == seq

\* rx_seq = rx_seq == 0 ? 1 : 0 for a new segment.
AdvanceRxSeq(seq) == IF seq = 0 THEN 1 ELSE 0

\* rx_seq != segment[1]: the segment is a duplicate.
IsOutdated(seg, seq) == seq # At(seg, 1)

\* CopyData that takes the offset from its low byte alone.
CopyDataLowOffset(buf, seg) ==
    LET offset == At(seg, 6)
        payload_len == (At(seg, 0) - DATA_SEGMENT_HEADER_LEN) % 256
    IN  [k \in 1..Len(buf) |->
            IF (k - 1) >= offset /\ (k - 1) - offset < payload_len
            THEN At(seg, (k - 1) - offset + DATA_SEGMENT_HEADER_LEN)
            ELSE buf[k]]

\* The DATA case of transport_rx: the payload is copied to buffer[offset ..],
\* for (i = 0; i < payload_len && i + offset < buf_len; i++).
CopyData(buf, seg) ==
    LET offset == Be16(At(seg, 5), At(seg, 6))
        payload_len == (At(seg, 0) - DATA_SEGMENT_HEADER_LEN) % 256
    IN  [k \in 1..Len(buf) |->
            IF (k - 1) >= offset /\ (k - 1) - offset < payload_len
            THEN At(seg, (k - 1) - offset + DATA_SEGMENT_HEADER_LEN)
            ELSE buf[k]]

\* The payload_len bytes a DATA segment announces lie within the bytes that
\* were received for it.
PayloadInSegment(seg) ==
    /\ At(seg, 0) >= DATA_SEGMENT_HEADER_LEN
    /\ At(seg, 0) <= Len(seg)

\* Values a byte may hold that the receive did not write: segment[] is a
\* local array, and a DATA segment whose segment[0] is below 7 or above the
\* bytes received makes the copy loop read what lies in and beyond it.
StrayBytes == {0, 170}

\* The DATA case of transport_rx for a segment whose payload_len reaches
\* beyond the bytes received, all of which read as stray.
CopyDataBeyond(buf, seg, stray) ==
    LET offset == Be16(At(seg, 5), At(seg, 6))
        payload_len == (At(seg, 0) - DATA_SEGMENT_HEADER_LEN) % 256
    IN  [k \in 1..Len(buf) |->
            IF (k - 1) >= offset /\ (k - 1) - offset < payload_len
            THEN IF (k - 1) - offset + DATA_SEGMENT_HEADER_LEN < Len(seg)
                 THEN At(seg, (k - 1) - offset + DATA_SEGMENT_HEADER_LEN)
                 ELSE stray
            ELSE buf[k]]

\* The buffers the DATA case of transport_rx can leave.
DataOutcomes(buf, seg) ==
    IF PayloadInSegment(seg)
    THEN {CopyData(buf, seg)}
    ELSE {CopyDataBeyond(buf, seg, stray) : stray \in StrayBytes}

\* case RXST_Idle, START_OF_MESSAGE: the out-parameters are written and the
\* state becomes Receiving.
RxStart(n, seg) ==
    /\ out_source_port' = [out_source_port EXCEPT ![n] = At(seg, 3)]
    /\ \E v \in ShiftLenOutcomes(At(seg, 5), At(seg, 6)) :
          out_message_len' = [out_message_len EXCEPT ![n] = v]
    /\ state' = [state EXCEPT ![n] = RXST_Receiving]
    /\ UNCHANGED << pc, buffer, rx_result, delivered >>

\* A segment the switch has no case for: break.
RxIgnore(n, seg) ==
    UNCHANGED << pc, out_source_port, out_message_len, state, buffer, rx_result,
                 delivered >>

\* case RXST_Receiving, END_OF_MESSAGE: return TRANSPORT_RX_SUCCESS.
RxEnd(n, seg) ==
    /\ state' = [state EXCEPT ![n] = RXST_Idle]
    /\ rx_result' = [rx_result EXCEPT ![n] = "TRANSPORT_RX_SUCCESS"]
    /\ pc' = [pc EXCEPT ![n] = "idle"]
    /\ delivered' = [delivered EXCEPT ![n] = << buffer[n] >>]
    /\ UNCHANGED << out_source_port, out_message_len, buffer >>

\* RxData that takes the DATA segment for the end of the message.
RxDataAsEnd(n, seg) == RxEnd(n, seg)

\* case RXST_Receiving, DATA.
RxData(n, seg) ==
    /\ \E b \in DataOutcomes(buffer[n], seg) : buffer' = [buffer EXCEPT ![n] = b]
    /\ UNCHANGED << pc, out_source_port, out_message_len, state, rx_result,
                    delivered >>

\* RxRestart that starts over as the Idle case does.
RxRestartAsStart(n, seg) == RxStart(n, seg)

\* case RXST_Receiving, START_OF_MESSAGE: *message_len is written again.
RxRestart(n, seg) ==
    /\ \E v \in ShiftLenOutcomes(At(seg, 5), At(seg, 6)) :
          out_message_len' = [out_message_len EXCEPT ![n] = v]
    /\ UNCHANGED << pc, out_source_port, state, buffer, rx_result, delivered >>

\* case RXST_Receiving
RxReceiving(n, seg) ==
    LET id == At(seg, 4)
    IN  IF id = SEGID_DATA THEN RxData(n, seg)
        ELSE IF id = SEGID_END_OF_MESSAGE THEN RxEnd(n, seg)
        ELSE IF id = SEGID_START_OF_MESSAGE THEN RxRestart(n, seg)
        ELSE RxIgnore(n, seg)

\* RxIdle that handles every segment as the Receiving case does.
RxIdleAsReceiving(n, seg) == RxReceiving(n, seg)

\* case RXST_Idle
RxIdle(n, seg) ==
    IF At(seg, 4) = SEGID_START_OF_MESSAGE THEN RxStart(n, seg) ELSE RxIgnore(n, seg)

\* The switch of transport_rx on a segment that transport_keep_trying_to_rx
\* returned: the new state, buffer and out-parameters, or the return.
RxSwitch(n, seg) ==
    IF state[n] = RXST_Idle THEN RxIdle(n, seg) ELSE RxReceiving(n, seg)

\* The buffer of buf_len bytes a caller passes, holding bytes of its own.
CallerBuffer(buf_len) == [i \in 1..buf_len |-> 255]

\* ZeroBuffer that leaves the buffer as the caller passed it.
ZeroBufferSkipped(buf) == buf

\* for (int i = 0; i < buf_len; i++) buffer[i] = 0;
ZeroBuffer(buf) == [i \in 1..Len(buf) |-> 0]

\* The application calls transport_rx(buffer, buf_len, ...): the buffer is
\* zeroed, the state is Idle, and the node blocks in network_rx.
transport_rx(n, buf_len) ==
    /\ pc[n] = "idle"
    /\ rx_calls' = [rx_calls EXCEPT ![n] = @ + 1]
    /\ buffer' = [buffer EXCEPT ![n] = ZeroBuffer(CallerBuffer(buf_len))]
    /\ state' = [state EXCEPT ![n] = RXST_Idle]
    /\ rx_result' = [rx_result EXCEPT ![n] = "none"]
    /\ attempt_rx_result' = [attempt_rx_result EXCEPT ![n] = "none"]
    /\ pc' = [pc EXCEPT ![n] = "rx"]
    /\ UNCHANGED << inbox, txVars, out_message_len, out_source_port, rx_seq,
                    rx_segment, ack_seg, missed, delivered >>
    /\ data_copied' = [data_copied EXCEPT ![n] = FALSE]

\* transport_attempt_rx that looks at rx_seq first and acknowledges new
\* segments only.
transport_attempt_rx_new_only(n) ==
    /\ pc[n] = "rx"
    /\ inbox[n] # << >>
    /\ HeadDest(n) = MY_NETWORK_ADDR(n)
    /\ LET seg == SegmentOf(Head(inbox[n]))
           seq == SyncSeq(seg, rx_seq[n])
           ack == AckSegment(seg, MY_PORT(n))
           to == resolve_network_addr(At(seg, 3))
           rest == [inbox EXCEPT ![n] = Tail(@)]
       IN  /\ rx_segment' = [rx_segment EXCEPT ![n] = seg]
           /\ IF IsOutdated(seg, seq)
              THEN /\ rx_seq' = [rx_seq EXCEPT ![n] = seq]
                   /\ attempt_rx_result' =
                        [attempt_rx_result EXCEPT ![n] = "TRANSPORT_ATTEMPT_RX_OUTDATED"]
                   /\ inbox' = rest
                   /\ UNCHANGED << pc, state, buffer, out_message_len,
                                   out_source_port, rx_result, ack_seg, missed,
                                   data_copied, delivered >>
              ELSE /\ ack_seg' = [ack_seg EXCEPT ![n] = ack]
                   /\ \E hop \in NextHops(n, to) :
                        LET sent == network_tx(rest, ack, ACK_SEGMENT_HEARDER_LEN, to,
                                               MY_NETWORK_ADDR(n), hop)
                        IN  /\ inbox' = sent
                            /\ missed' = Missed(ack, sent, rest)
                   /\ rx_seq' = [rx_seq EXCEPT ![n] = AdvanceRxSeq(seq)]
                   /\ attempt_rx_result' =
                        [attempt_rx_result EXCEPT ![n] = "TRANSPORT_ATTEMPT_RX_SUCCESS"]
                   /\ data_copied' =
                        [data_copied EXCEPT
                           ![n] = @ \/ (state[n] = RXST_Receiving
                                         /\ At(seg, 4) = SEGID_DATA)]
                   /\ RxSwitch(n, seg)
    /\ UNCHANGED << txVars, rx_calls >>

\* network_rx in transport_attempt_rx delivers a segment addressed to n: it is
\* acknowledged, checked against rx_seq, and a new segment goes through the
\* switch of transport_rx; a duplicate is only acknowledged.
transport_attempt_rx(n) ==
    /\ pc[n] = "rx"
    /\ inbox[n] # << >>
    /\ HeadDest(n) = MY_NETWORK_ADDR(n)
    /\ LET seg == SegmentOf(Head(inbox[n]))
           seq == SyncSeq(seg, rx_seq[n])
           ack == AckSegment(seg, MY_PORT(n))
           to == resolve_network_addr(At(seg, 3))
           rest == [inbox EXCEPT ![n] = Tail(@)]
       IN  /\ rx_segment' = [rx_segment EXCEPT ![n] = seg]
           /\ ack_seg' = [ack_seg EXCEPT ![n] = ack]
           /\ \E hop \in NextHops(n, to) :
                LET sent == network_tx(rest, ack, ACK_SEGMENT_HEARDER_LEN, to,
                                       MY_NETWORK_ADDR(n), hop)
                IN  /\ inbox' = sent
                    /\ missed' = Missed(ack, sent, rest)
           /\ IF IsOutdated(seg, seq)
              THEN /\ rx_seq' = [rx_seq EXCEPT ![n] = seq]
                   /\ attempt_rx_result' =
                        [attempt_rx_result EXCEPT ![n] = "TRANSPORT_ATTEMPT_RX_OUTDATED"]
                   /\ UNCHANGED << pc, state, buffer, out_message_len,
                                   out_source_port, rx_result, data_copied,
                                   delivered >>
              ELSE /\ rx_seq' = [rx_seq EXCEPT ![n] = AdvanceRxSeq(seq)]
                   /\ attempt_rx_result' =
                        [attempt_rx_result EXCEPT ![n] = "TRANSPORT_ATTEMPT_RX_SUCCESS"]
                   /\ data_copied' =
                        [data_copied EXCEPT
                           ![n] = @ \/ (state[n] = RXST_Receiving
                                         /\ At(seg, 4) = SEGID_DATA)]
                   /\ RxSwitch(n, seg)
    /\ UNCHANGED << txVars, rx_calls >>

\* transport_attempt_rx_timeout that tries again after the timeout.
transport_attempt_rx_timeout_retries(n) ==
    /\ pc[n] = "rx"
    /\ inbox[n] = << >>
    /\ attempt_rx_result' =
         [attempt_rx_result EXCEPT ![n] = "TRANSPORT_ATTEMPT_RX_TIMEOUT"]
    /\ UNCHANGED << pc, inbox, txVars, state, buffer, out_message_len,
                    out_source_port, rx_seq, rx_result, rx_segment, ack_seg,
                    rx_calls, missed, data_copied, delivered >>

\* network_rx in transport_attempt_rx times out: transport_rx returns TIMEOUT.
transport_attempt_rx_timeout(n) ==
    /\ pc[n] = "rx"
    /\ inbox[n] = << >>
    /\ attempt_rx_result' =
         [attempt_rx_result EXCEPT ![n] = "TRANSPORT_ATTEMPT_RX_TIMEOUT"]
    /\ rx_result' = [rx_result EXCEPT ![n] = "TRANSPORT_RX_TIMEOUT"]
    /\ pc' = [pc EXCEPT ![n] = "idle"]
    /\ UNCHANGED << inbox, txVars, state, buffer, out_message_len, out_source_port,
                    rx_seq, rx_segment, ack_seg, rx_calls, missed, data_copied,
                    delivered >>

\* network_rx in transport_attempt_rx reports an error: the keep-trying loop
\* tries again (the return of the error is commented out).
transport_attempt_rx_error(n) ==
    /\ pc[n] = "rx"
    /\ attempt_rx_result' =
         [attempt_rx_result EXCEPT ![n] = "TRANSPORT_ATTEMPT_RX_ERROR"]
    /\ UNCHANGED << pc, inbox, txVars, state, buffer, out_message_len,
                    out_source_port, rx_seq, rx_result, rx_segment, ack_seg,
                    rx_calls, missed, data_copied, delivered >>

\* network_rx_forward that returns to its caller after forwarding.
network_rx_forward_returns(n) ==
    /\ pc[n] # "idle"
    /\ inbox[n] # << >>
    /\ HeadDest(n) # MY_NETWORK_ADDR(n)
    /\ LET packet == PacketOf(Head(inbox[n]))
           packet_len == At(packet, 0)
           rest == [inbox EXCEPT ![n] = Tail(@)]
       IN  \E hop \in NextHops(n, At(packet, 1)) :
              inbox' = network_tx(rest, packet, packet_len, At(packet, 1),
                                  At(packet, 2), hop)
    /\ pc' = [pc EXCEPT ![n] = "idle"]
    /\ UNCHANGED << txVars, rxVars, missed >>

\* network_rx of a node blocked in either transport call finds a packet that
\* is not for it: it is handed to network_tx and the receive resumes.
network_rx_forward(n) ==
    /\ pc[n] # "idle"
    /\ inbox[n] # << >>
    /\ HeadDest(n) # MY_NETWORK_ADDR(n)
    /\ LET packet == PacketOf(Head(inbox[n]))
           packet_len == At(packet, 0)
           rest == [inbox EXCEPT ![n] = Tail(@)]
       IN  \E hop \in NextHops(n, At(packet, 1)) :
              inbox' = network_tx(rest, packet, packet_len, At(packet, 1),
                                  At(packet, 2), hop)
    /\ UNCHANGED << pc, txVars, rxVars, missed >>

\* ------------------------------------- applications of the network layer
\* IsForMe that takes every packet for its own.
IsForMeAlways(n, packet) == TRUE

\* packet[1] == MY_NETWORK_ADDR: the packet is for this node.
IsForMe(n, packet) == At(packet, 1) = MY_NETWORK_ADDR(n)

\* An application calls network_tx(payload, payload_len, dest, MY_NETWORK_ADDR)
\* and goes on with other work.
app_network_tx(n, payload, dest_network_addr) ==
    /\ pc[n] = "idle"
    /\ net_payload' = [net_payload EXCEPT ![n] = payload]
    /\ net_tx_calls' = [net_tx_calls EXCEPT ![n] = @ + 1]
    /\ \E hop \in NextHops(n, dest_network_addr) :
          inbox' = network_tx(inbox, payload, Len(payload), dest_network_addr,
                              MY_NETWORK_ADDR(n), hop)
    /\ UNCHANGED << pc, txVars, rxVars, missed, net_buffer, net_return >>

\* An application calls network_rx(buffer, buf_len) with a cleared buffer and
\* blocks in data_link_rx.
network_rx_call(n, buf_len) ==
    /\ pc[n] = "idle"
    /\ pc' = [pc EXCEPT ![n] = "net_rx"]
    /\ net_buffer' = [net_buffer EXCEPT ![n] = Zeros(buf_len)]
    /\ net_return' = [net_return EXCEPT ![n] = Unset]
    /\ UNCHANGED << inbox, txVars, rxVars, missed, net_payload, net_tx_calls >>

\* The caller's memory from buffer[0] on after the bytes of got were written
\* to buffer[0 ..]: bytes written past the end of the buffer lengthen it.
Written(buf, got) ==
    [k \in 1..(IF Len(got) > Len(buf) THEN Len(got) ELSE Len(buf)) |->
        IF k <= Len(got) THEN got[k] ELSE buf[k]]

\* network_rx finds a packet that is for this node: the payload is copied to
\* the buffer and its length returned.
network_rx_deliver(n) ==
    /\ pc[n] = "net_rx"
    /\ inbox[n] # << >>
    /\ IsForMe(n, PacketOf(Head(inbox[n])))
    /\ LET packet == PacketOf(Head(inbox[n]))
           packet_len == At(packet, 0)
           got == NetworkPayload(packet, Len(net_buffer[n]))
       IN  /\ net_buffer' = [net_buffer EXCEPT ![n] = Written(@, got)]
           /\ net_return' = [net_return EXCEPT ![n] = packet_len - PACKET_HEADER_LEN]
    /\ pc' = [pc EXCEPT ![n] = "idle"]
    /\ inbox' = [inbox EXCEPT ![n] = Tail(@)]
    /\ UNCHANGED << txVars, rxVars, missed, net_payload, net_tx_calls >>

\* ------------------------------------------- data_link_rx, on its own
\* What trx_receive_payload can report.
TrxReceptionOutcomes ==
    {"TRX_RECEPTION_SUCCESS", "TRX_RECEPTION_TIMEOUT", "TRX_RECEPTION_FAILURE"}

\* Frames a peer may have transmitted.
ReceivedFrames ==
    {DataLinkFrame(NetworkPacket(MessageOf(L, 0), L, NodeB, NodeA),
                   L + PACKET_HEADER_LEN) : L \in {0, 5, MAX_SEGMENT_LEN}}

\* rxframe is a local array that nothing initialises: when no frame was
\* received it holds whatever the stack held, such as an older frame or
\* other bytes.
StaleFrames ==
    ReceivedFrames \cup {[i \in 1..TRX_PAYLOAD_LENGTH |-> 170]}

\* What data_link_rx returns for an outcome of trx_receive_payload.
DataLinkRxReturn(outcome) ==
    IF outcome = "TRX_RECEPTION_FAILURE" THEN "false" ELSE "true"

\* The caller's buffer after data_link_rx.
DataLinkRxBuffer(buf, outcome, rxframe) ==
    IF outcome = "TRX_RECEPTION_FAILURE"
    THEN buf
    ELSE LET copied == data_link_rx(rxframe, Len(buf))
         IN  [k \in 1..Len(buf) |-> IF k <= Len(copied) THEN copied[k] ELSE buf[k]]

\* A caller gets a buffer of buf_len bytes ready, holding bytes of its own.
data_link_rx_prepare(buf_len) ==
    /\ dl_buffer' = [k \in 1..buf_len |-> 255]
    /\ trx_outcome' = "none"
    /\ dl_return' = "none"
    /\ UNCHANGED << pc, inbox, txVars, rxVars, missed, faults, net_tx_reports,
                    netVars, dlTxVars, wire >>

\* data_link_rx(buffer, buf_len, timeout_ms) from the call to the return.
data_link_rx_timed ==
    /\ trx_outcome = "none"
    /\ \E outcome \in TrxReceptionOutcomes :
         \E rxframe \in (IF outcome = "TRX_RECEPTION_SUCCESS"
                         THEN ReceivedFrames ELSE StaleFrames) :
            /\ trx_outcome' = outcome
            /\ dl_return' = DataLinkRxReturn(outcome)
            /\ dl_buffer' = DataLinkRxBuffer(dl_buffer, outcome, rxframe)
    /\ UNCHANGED << pc, inbox, txVars, rxVars, missed, faults, net_tx_reports,
                    netVars, dlTxVars, wire >>

\* ---------------------------------- data_link_tx and data_link_rx, paired
\* What trx_transmit_payload can report.
TrxTransmissionOutcomes == {"TRX_TRANSMISSION_SUCCESS", "TRX_TRANSMISSION_FAILURE"}

\* What data_link_tx returns for a report of trx_transmit_payload.
DataLinkTxReturn(outcome) ==
    IF outcome = "TRX_TRANSMISSION_SUCCESS" THEN "true" ELSE "false"

\* Node n calls data_link_tx(payload, payload_len, addr): the zero-padded
\* frame is handed to the transceiver, whose report decides the return value.
\* A transmission reported as failed may have been heard all the same.
data_link_tx(n, payload, payload_len, addr) ==
    /\ pc[n] = "idle"
    /\ dl_payload' = payload
    /\ dl_frame' = DataLinkFrame(payload, payload_len)
    /\ \E outcome \in TrxTransmissionOutcomes :
          /\ trx_tx_outcome' = outcome
          /\ dl_tx_return' = DataLinkTxReturn(outcome)
          /\ inbox' \in (IF outcome = "TRX_TRANSMISSION_SUCCESS"
                         THEN {Radio(inbox, dl_frame', addr)}
                         ELSE {inbox, Radio(inbox, dl_frame', addr)})
    /\ UNCHANGED << pc, txVars, rxVars, missed, faults, net_tx_reports, netVars,
                    dlRxVars, wire >>

\* Node n calls data_link_rx(buffer, buf_len, timeout_ms) with a buffer that
\* holds bytes of its own, and blocks in trx_receive_payload.
data_link_rx_call(n, buf_len) ==
    /\ pc[n] = "idle"
    /\ pc' = [pc EXCEPT ![n] = "dl_rx"]
    /\ dl_buffer' = [k \in 1..buf_len |-> 255]
    /\ trx_outcome' = "none"
    /\ dl_return' = "none"
    /\ UNCHANGED << inbox, txVars, rxVars, missed, faults, net_tx_reports, netVars,
                    dlTxVars, wire >>

\* trx_receive_payload of node n hands over the frame its transceiver
\* received, and data_link_rx copies the frame body and returns.
data_link_rx_frame(n) ==
    /\ pc[n] = "dl_rx"
    /\ inbox[n] # << >>
    /\ trx_outcome' = "TRX_RECEPTION_SUCCESS"
    /\ dl_return' = DataLinkRxReturn(trx_outcome')
    /\ dl_buffer' = DataLinkRxBuffer(dl_buffer, trx_outcome', Head(inbox[n]))
    /\ inbox' = [inbox EXCEPT ![n] = Tail(@)]
    /\ pc' = [pc EXCEPT ![n] = "idle"]
    /\ UNCHANGED << txVars, rxVars, missed, faults, net_tx_reports, netVars,
                    dlTxVars, wire >>

\* ---------------------------------------------------------------- channel
\* The frame carries a transport ACK segment.
IsAckFrame(frame) == At(PacketOf(frame), 7) = SEGID_ACK

RemoveAt(s, i) == [k \in 1..(Len(s) - 1) |-> IF k < i THEN s[k] ELSE s[k + 1]]

\* The radio loses the i-th frame waiting in n's transceiver.
LoseFrame(n, i) ==
    /\ i \in 1..Len(inbox[n])
    /\ inbox' = [inbox EXCEPT ![n] = RemoveAt(@, i)]
    /\ UNCHANGED << pc, txVars, rxVars, missed >>

\* The radio delivers the frame at the head of n's transceiver twice.
DuplicateFrame(n) ==
    /\ inbox[n] # << >>
    /\ Len(inbox[n]) < MaxInbox
    /\ inbox' = [inbox EXCEPT ![n] = << Head(@) >> \o @]
    /\ UNCHANGED << pc, txVars, rxVars, missed >>

\* A third node transmits a packet for final address dest to node n, which is
\* receiving: traffic that is not n's own.
ForeignTraffic(n, dest) ==
    /\ pc[n] # "idle"
    /\ inbox' = network_tx(inbox, << ACK_SEGMENT_HEARDER_LEN, 0, MY_PORT(NodeC),
                                     MY_PORT(NodeC), SEGID_ACK >>,
                           ACK_SEGMENT_HEARDER_LEN, dest, MY_NETWORK_ADDR(NodeC), n)
    /\ inbox' # inbox
    /\ UNCHANGED << pc, txVars, rxVars, missed >>

\* A segment of identifier id from port src to n, as the segment layout
\* has it: any peer may transmit it, in any order.
PeerStart(n, seq, src, message_len) ==
    StartSegment(seq, MY_PORT(n), src, message_len)

PeerData(n, seq, src, offset, payload_len) ==
    << DATA_SEGMENT_HEADER_LEN + payload_len, seq, MY_PORT(n), src, SEGID_DATA,
       HiByte(offset), LoByte(offset) >>
    \o [i \in 1..payload_len |-> 100 + i]

PeerEnd(n, seq, src) == EndSegment(seq, MY_PORT(n), src)

PeerAck(n, seq, src) == << ACK_SEGMENT_HEARDER_LEN, seq, MY_PORT(n), src, SEGID_ACK >>

\* A DATA segment of seven bytes whose segment[0] says something else.
PeerDataMislabelled(n, seq, src, segment_len) ==
    << segment_len, seq, MY_PORT(n), src, SEGID_DATA, 0, 0 >>

\* A peer with port src transmits segment seg to node n, which is receiving
\* and has taken everything sent before.
PeerSends(n, src, seg) ==
    /\ pc[n] # "idle"
    /\ inbox[n] = << >>
    /\ inbox' = network_tx(inbox, seg, Len(seg), MY_NETWORK_ADDR(n),
                           resolve_network_addr(src), n)
    /\ UNCHANGED << pc, txVars, rxVars, missed >>

\* --------------------------------------------------------- specifications
Sender == NodeA
Receiver == NodeB

MsgLens == {0, 1, MaxMsgLen}
BufLens == {SmallBuf, MaxMsgLen}

\* One more fault of the given kind, within the budget of the run.
Fault(kind) ==
    /\ FaultCount < MaxFaults
    /\ faults' = [faults EXCEPT ![kind] = @ + 1]
    /\ UNCHANGED << net_tx_reports, netVars, dlVars, wire >>

LossKind(n, i) ==
    IF i \in 1..Len(inbox[n]) /\ IsAckFrame(inbox[n][i]) THEN "lostAck" ELSE "lostSeg"

CallTx(lens, calls) ==
    \E L \in lens :
       /\ tx_calls[Sender] < calls
       /\ transport_tx(Sender, MessageOf(L, tx_calls[Sender]), MY_PORT(Receiver))

CallRx(lens, calls) ==
    \E b \in lens :
       /\ rx_calls[Receiver] < calls
       /\ transport_rx(Receiver, b)

SenderStep ==
    \/ transport_attempt_tx_rx(Sender)
    \/ transport_attempt_tx_timeout(Sender)
    \/ network_rx_forward(Sender)

ReceiverStep ==
    \/ transport_attempt_rx(Receiver)
    \/ transport_attempt_rx_timeout(Receiver)
    \/ network_rx_forward(Receiver)

Lose == \E n \in {Sender, Receiver}, i \in 1..MaxInbox :
           LoseFrame(n, i) /\ Fault(LossKind(n, i))

Duplicate == \E n \in {Sender, Receiver} : DuplicateFrame(n) /\ Fault("dup")

ReceiveError ==
    \/ transport_attempt_tx_error(Sender) /\ Fault("txErr")
    \/ transport_attempt_rx_error(Receiver) /\ Fault("rxErr")

\* The ACK timeout of n expires in time: the timeout (1500 ms) is six times
\* the delay before an ACK (250 ms), so when the peers answer promptly it
\* expires only when nothing is on its way to n.
AckTimeout(n) == Quiescent(n) /\ transport_attempt_tx_timeout(n)

\* A step of the transport layer: the fault budget is left as it is, no
\* application is using the network layer directly, and nobody records the
\* radio traffic.
Quiet(A) == A /\ UNCHANGED << faults, net_tx_reports, netVars, dlVars, wire >>

\* Cube A sends messages to cube B over a radio that loses and duplicates a
\* bounded number of frames and reports a bounded number of receive errors.
Next ==
    \/ Quiet(CallTx(MsgLens, MaxTxCalls))
    \/ Quiet(CallRx(BufLens, MaxRxCalls))
    \/ Quiet(transport_attempt_tx_rx(Sender))
    \/ Quiet(AckTimeout(Sender))
    \/ Quiet(transport_attempt_rx(Receiver))
    \/ Quiet(transport_attempt_rx_timeout(Receiver))
    \/ Lose
    \/ Duplicate
    \/ ReceiveError

Spec == Init /\ [][Next]_vars

\* One session over an ideal channel: one transport_tx, one transport_rx, no
\* fault.  rx_seq is static, so it holds what an earlier session left.
IdealLens == (0..MaxIdealLen) \cup {LongLen - 1, LongLen}
IdealBufLens == {SmallBuf, MaxIdealLen, LongLen}

IdealInit ==
    /\ PowerUp
    /\ \E b \in {0, 1} : rx_seq = [n \in Nodes |-> IF n = Receiver THEN b ELSE 0]
    /\ ReportsSuccess

IdealNext ==
    \/ Quiet(CallTx(IdealLens, 1))
    \/ Quiet(CallRx(IdealBufLens, 1))
    \/ Quiet(transport_attempt_tx_rx(Sender))
    \/ Quiet(AckTimeout(Sender))
    \/ Quiet(transport_attempt_rx(Receiver))
    \/ Quiet(transport_attempt_rx_timeout(Receiver))

IdealSpec == IdealInit /\ [][IdealNext]_vars

\* The channel behaves in any way, for ever: frames are lost and duplicated
\* without bound, receives fail, and a timeout may expire whenever no frame
\* has arrived.  Each node, being a running program, takes its next step
\* when it has one.
LiveNext ==
    \/ Quiet(CallTx({0, 1}, 1))
    \/ Quiet(CallRx({SmallBuf}, 1))
    \/ Quiet(transport_attempt_tx_rx(Sender))
    \/ Quiet(transport_attempt_tx_timeout(Sender))
    \/ Quiet(transport_attempt_rx(Receiver))
    \/ Quiet(transport_attempt_rx_timeout(Receiver))
    \/ Quiet(transport_attempt_tx_error(Sender))
    \/ Quiet(transport_attempt_rx_error(Receiver))
    \/ \E n \in {Sender, Receiver} : Quiet(LoseFrame(n, 1))
    \/ \E n \in {Sender, Receiver} : Quiet(DuplicateFrame(n))

SenderRuns ==
    Quiet(transport_attempt_tx_rx(Sender) \/ transport_attempt_tx_timeout(Sender))

ReceiverRuns ==
    Quiet(transport_attempt_rx(Receiver) \/ transport_attempt_rx_timeout(Receiver))

LiveSpec ==
    /\ Init
    /\ [][LiveNext]_vars
    /\ WF_vars(SenderRuns)
    /\ WF_vars(ReceiverRuns)

\* As LiveSpec, and cube C keeps sending cube A packets that are for somebody
\* else, which network_rx forwards.
ForeignNext ==
    \/ Quiet(network_rx_forward(Sender))
    \/ Quiet(network_rx_forward(Receiver))
    \/ Quiet(ForeignTraffic(Sender, MY_NETWORK_ADDR(NodeC)))
    \/ LiveNext

ForeignSpec ==
    /\ Init
    /\ [][ForeignNext]_vars
    /\ WF_vars(Quiet(SenderStep))
    /\ WF_vars(Quiet(ReceiverStep))

\* The transceiver of the receiver is broken: every network_rx of its
\* transport_rx reports an error, while the sender keeps trying.
DeafNext ==
    \/ Quiet(CallTx(MsgLens, 1))
    \/ Quiet(CallRx(BufLens, 1))
    \/ Quiet(transport_attempt_tx_timeout(Sender))
    \/ Quiet(transport_attempt_rx_error(Receiver))

DeafSpec ==
    /\ Init
    /\ [][DeafNext]_vars
    /\ WF_vars(Quiet(transport_attempt_tx_timeout(Sender)))
    /\ WF_vars(Quiet(transport_attempt_rx_error(Receiver)))

\* One session without faults on a transceiver that reports its
\* transmissions as successes, as failures, or as either, whatever happened
\* to the frame.
ReportInit ==
    /\ PowerUp
    /\ rx_seq = [n \in Nodes |-> 0]
    /\ net_tx_reports \in (SUBSET {"NETWORK_TX_SUCCESS", "NETWORK_TX_FAILURE"}) \ {{}}

ReportNext ==
    \/ Quiet(CallTx(MsgLens, 1))
    \/ Quiet(CallRx(BufLens, 1))
    \/ Quiet(transport_attempt_tx_rx(Sender))
    \/ Quiet(AckTimeout(Sender))
    \/ Quiet(transport_attempt_rx(Receiver))
    \/ Quiet(transport_attempt_rx_timeout(Receiver))

ReportSpec == ReportInit /\ [][ReportNext]_vars

\* The rover sends one message of 15 bytes, "Hello, cube!\r\n" and its
\* terminating zero, to cube A, and every segment handed to network_tx is
\* recorded in the order of the transmissions.
S1Message == << 72, 101, 108, 108, 111, 44, 32, 99, 117, 98, 101, 33, 13, 10, 0 >>
S1BufLens == {SmallBuf, Len(S1Message), MAX_SEGMENT_LEN}

\* A step of transport_tx on the rover; it has transmitted segment'[Rover]
\* exactly when it is left waiting for an acknowledgement.
TracedTx(A) ==
    /\ A
    /\ wire' = IF pc'[Rover] = "tx" THEN Append(wire, segment'[Rover]) ELSE wire
    /\ UNCHANGED << faults, net_tx_reports, netVars, dlVars >>

\* A step of transport_attempt_rx on cube A; it transmits ack_seg'[NodeA].
TracedRx(A) ==
    /\ A
    /\ wire' = Append(wire, ack_seg'[NodeA])
    /\ UNCHANGED << faults, net_tx_reports, netVars, dlVars >>

S1Init ==
    /\ PowerUp
    /\ \E b \in {0, 1} : rx_seq = [n \in Nodes |-> IF n = NodeA THEN b ELSE 0]
    /\ ReportsSuccess

S1Next ==
    \/ TracedTx(tx_calls[Rover] < 1 /\ transport_tx(Rover, S1Message, MY_PORT(NodeA)))
    \/ Quiet(\E b \in S1BufLens : rx_calls[NodeA] < 1 /\ transport_rx(NodeA, b))
    \/ TracedTx(transport_attempt_tx_rx(Rover))
    \/ TracedTx(AckTimeout(Rover))
    \/ TracedRx(transport_attempt_rx(NodeA))
    \/ Quiet(transport_attempt_rx_timeout(NodeA))

S1Spec == S1Init /\ [][S1Next]_vars

\* Cube B sits in transport_rx while its peers transmit whatever segments
\* they like: well-formed ones of every kind in any order and with either
\* sequence bit, DATA segments at and beyond the end of the buffer, and DATA
\* segments whose length byte is wrong.
PeerPorts == {NodeA, NodeC}
PeerMessageLens == {2, 256, 257}
PeerDataShapes == {<< 0, 2 >>, << 2, 21 >>, << 9, 2 >>, << 256, 1 >>}
PeerWrongLens == {5, 40}

\* Cube C only ever starts messages here; cube A sends every kind of segment.
PeerSegments(n, src) ==
    UNION {{PeerStart(n, seq, src, L) : L \in PeerMessageLens}
           \cup (IF src = NodeA
                 THEN {PeerData(n, seq, src, sh[1], sh[2]) : sh \in PeerDataShapes}
                      \cup {PeerDataMislabelled(n, seq, src, l) : l \in PeerWrongLens}
                      \cup {PeerEnd(n, seq, src), PeerAck(n, seq, src)}
                 ELSE {}) : seq \in {0, 1}}

PeerInit ==
    /\ PowerUp
    /\ \E b \in {0, 1} : rx_seq = [n \in Nodes |-> IF n = Receiver THEN b ELSE 0]
    /\ ReportsSuccess

PeerNext ==
    \/ Quiet(CallRx(BufLens, 1))
    \/ Quiet(\E src \in PeerPorts : \E seg \in PeerSegments(Receiver, src) :
                PeerSends(Receiver, src, seg))
    \/ Quiet(transport_attempt_rx(Receiver))
    \/ Quiet(transport_attempt_rx_timeout(Receiver))

PeerSpec == PeerInit /\ [][PeerNext]_vars

\* The sender restarts: a receive error ends its first transport_tx wherever
\* it is, and it calls transport_tx again while the receiver is still in the
\* same transport_rx.  Before the sender's first call cube C may have started
\* messages of its own with either sequence bit.
RestartNext ==
    \/ Quiet(CallTx(MsgLens, 2))
    \/ Quiet(CallRx(BufLens, 1))
    \/ Quiet(transport_attempt_tx_rx(Sender))
    \/ Quiet(AckTimeout(Sender))
    \/ Quiet(transport_attempt_rx(Receiver))
    \/ Quiet(transport_attempt_rx_timeout(Receiver))
    \/ (tx_calls[Sender] = 1 /\ transport_attempt_tx_error(Sender) /\ Fault("txErr"))
    \/ Quiet(\E seq \in {0, 1} :
                /\ tx_calls[Sender] = 0
                /\ PeerSends(Receiver, NodeC, PeerStart(Receiver, seq, NodeC, 2)))

RestartSpec == PeerInit /\ [][RestartNext]_vars

\* Cube A sits in transport_tx while cube B answers with whatever segments
\* it likes, ACKs with either sequence bit and segments that are no ACKs,
\* or with nothing; a network_rx of cube A may also report an error.
AnswerSegments(n, src) ==
    UNION {{PeerAck(n, seq, src), PeerEnd(n, seq, src),
            PeerStart(n, seq, src, 2), PeerData(n, seq, src, 0, 2)} : seq \in {0, 1}}

AnswerNext ==
    \/ Quiet(CallTx(MsgLens, 1))
    \/ Quiet(\E seg \in AnswerSegments(Sender, MY_PORT(Receiver)) :
                PeerSends(Sender, MY_PORT(Receiver), seg))
    \/ Quiet(transport_attempt_tx_rx(Sender))
    \/ Quiet(transport_attempt_tx_timeout(Sender))
    \/ Quiet(transport_attempt_tx_error(Sender))

AnswerSpec == Init /\ [][AnswerNext]_vars

\* data_link_rx called with buffers of every length, for every outcome of
\* the transceiver.
DllNext ==
    \/ \E buf_len \in 0..MaxDlBuf : data_link_rx_prepare(buf_len)
    \/ data_link_rx_timed

DllSpec == Init /\ [][DllNext]_vars

\* A step of an application that uses the network layer directly.
Direct(A) == A /\ UNCHANGED << faults, net_tx_reports, dlVars, wire >>

\* Cube A hands payloads to network_tx for cube B and for cube C, which it
\* reaches through B; B and C sit in network_rx.
NetLens == {0, 1, 2, MaxNetLen}
NetBufLens == {SmallBuf, MAX_SEGMENT_LEN}

HopNext ==
    \/ Direct(\E L \in NetLens, dest \in {NodeB, NodeC} :
                /\ net_tx_calls[NodeA] < MaxNetTx
                /\ app_network_tx(NodeA, MessageOf(L, net_tx_calls[NodeA]), dest))
    \/ Direct(\E n \in {NodeB, NodeC}, b \in NetBufLens : network_rx_call(n, b))
    \/ Quiet(\E n \in {NodeB, NodeC} : network_rx_forward(n))
    \/ Direct(\E n \in {NodeB, NodeC} : network_rx_deliver(n))

HopSpec == Init /\ [][HopNext]_vars

\* Cube A sends a message to its neighbour cube B while cube C, which reaches
\* every node through B, hands a segment of its own for cube A to network_tx:
\* a START_OF_MESSAGE, a full DATA segment or an END_OF_MESSAGE.  B forwards
\* it from inside its transport_rx.
RelaySegments ==
    {PeerStart(NodeA, 0, MY_PORT(NodeC), MaxMsgLen),
     PeerData(NodeA, 1, MY_PORT(NodeC), 0, MAX_SEGMENT_LEN - DATA_SEGMENT_HEADER_LEN),
     PeerEnd(NodeA, 0, MY_PORT(NodeC))}

RelayNext ==
    \/ Quiet(CallTx(MsgLens, 1))
    \/ Quiet(CallRx(BufLens, 1))
    \/ Quiet(transport_attempt_tx_rx(Sender))
    \/ Quiet(AckTimeout(Sender))
    \/ Quiet(transport_attempt_rx(Receiver))
    \/ Quiet(transport_attempt_rx_timeout(Receiver))
    \/ Direct(\E seg \in RelaySegments :
                /\ net_tx_calls[NodeC] < 1
                /\ app_network_tx(NodeC, seg, MY_NETWORK_ADDR(NodeA)))
    \/ Quiet(network_rx_forward(Receiver))

RelaySpec == Init /\ [][RelayNext]_vars

\* Cube A hands payloads of every length up to MAX_PACKET_LEN, and one that
\* is longer, to data_link_tx for cube B, which calls data_link_rx with
\* buffers shorter and longer than a frame body.
FrameLens == {0, 1, MAX_PACKET_LEN - 1, MAX_PACKET_LEN, MAX_PACKET_LEN + PACKET_HEADER_LEN}
FrameBufLens == {0, 1, SmallBuf, MaxDlBuf, MaxDlBuf + SmallBuf}

FrameNext ==
    \/ \E L \in FrameLens :
          data_link_tx(NodeA, MessageOf(L, 0), L, MY_DATA_LINK_ADDR(NodeB))
    \/ \E b \in FrameBufLens : data_link_rx_call(NodeB, b)
    \/ data_link_rx_frame(NodeB)

FrameSpec == Init /\ [][FrameNext]_vars

\* Cube A and cube B are both in transport_rx, nobody is sending a message,
\* and one ACK that cube B sent in an earlier conversation reaches cube A
\* late.  Each node, being a running program, takes its next step when it
\* has one; a receive times out only when no frame has arrived.
StrayAck ==
    /\ wire = << >>
    /\ \E seq \in {0, 1} :
          LET ack == PeerAck(Sender, seq, MY_PORT(Receiver))
          IN  /\ PeerSends(Sender, MY_PORT(Receiver), ack)
              /\ wire' = << ack >>
    /\ UNCHANGED << faults, net_tx_reports, netVars, dlVars >>

EchoNodes == {Sender, Receiver}

EchoNext ==
    \/ Quiet(\E n \in EchoNodes, b \in BufLens :
                rx_calls[n] < MaxRxCalls /\ transport_rx(n, b))
    \/ StrayAck
    \/ Quiet(\E n \in EchoNodes : transport_attempt_rx(n))
    \/ Quiet(\E n \in EchoNodes : transport_attempt_rx_timeout(n))

EchoSpec ==
    /\ Init
    /\ [][EchoNext]_vars
    /\ \A n \in EchoNodes :
          WF_vars(Quiet(transport_attempt_rx(n) \/ transport_attempt_rx_timeout(n)))

\* Cube A sends a message to cube B, which never receives it; the only
\* segments that reach cube A are ACKs of either sequence bit that cube B
\* sent during an earlier message and ACKs from cube C, a third node.
OriginPorts == {MY_PORT(Receiver), MY_PORT(NodeC)}

OriginNext ==
    \/ Quiet(CallTx(MsgLens, 1))
    \/ Quiet(\E src \in OriginPorts, seq \in {0, 1} :
                PeerSends(Sender, src, PeerAck(Sender, seq, src)))
    \/ Quiet(transport_attempt_tx_rx(Sender))
    \/ Quiet(transport_attempt_tx_timeout(Sender))

OriginSpec == Init /\ [][OriginNext]_vars

\* Cube A and cube B each call transport_tx towards the other once, at any
\* time and so also at the same time; neither ever calls transport_rx.  Each node,
\* being a running program, takes its next step when it has one.
Peer(n) == IF n = Sender THEN Receiver ELSE Sender

CrossNext ==
    \/ Quiet(\E n \in EchoNodes, L \in MsgLens :
                /\ tx_calls[n] < 1
                /\ transport_tx(n, MessageOf(L, tx_calls[n]), MY_PORT(Peer(n))))
    \/ Quiet(\E n \in EchoNodes : transport_attempt_tx_rx(n))
    \/ Quiet(\E n \in EchoNodes : transport_attempt_tx_timeout(n))

CrossSpec ==
    /\ Init
    /\ [][CrossNext]_vars
    /\ \A n \in EchoNodes :
          WF_vars(Quiet(transport_attempt_tx_rx(n) \/ transport_attempt_tx_timeout(n)))

\* Cube A hands payloads of up to MAX_SEGMENT_LEN bytes to network_tx for
\* its neighbour cube B, which sits in network_rx with a short or a full
\* buffer.
LinkLens == {0, 1, SmallBuf, SmallBuf + 1, MAX_SEGMENT_LEN - 1, MAX_SEGMENT_LEN}

LinkNext ==
    \/ Direct(\E L \in LinkLens :
                /\ net_tx_calls[NodeA] < MaxNetTx
                /\ app_network_tx(NodeA, MessageOf(L, net_tx_calls[NodeA]), NodeB))
    \/ Direct(\E b \in NetBufLens : network_rx_call(NodeB, b))
    \/ Direct(network_rx_deliver(NodeB))

LinkSpec == Init /\ [][LinkNext]_vars

\* ----------------------------------------------------------------- claims
\* The call of transport_tx by the sender has returned.
TxReturned == pc[Sender] = "idle" /\ tx_calls[Sender] >= 1

\* Every frame transmitted so far was heard by the node it was sent to.
AllHeard == missed = {}

\* C1: on an ideal channel (every frame is heard, none is lost or duplicated)
\* a message of any length L tried, sent by transport_tx to a peer whose
\* transport_rx has a buffer of buf_len >= L, makes transport_tx and
\* transport_rx return Success with buffer[0..L) equal to the message.
C1_RoundTrip ==
    (TxReturned /\ AllHeard /\ Len(buffer[Receiver]) >= Len(message[Sender]))
        => /\ tx_result[Sender] = "TRANSPORT_TX_SUCCESS"
           /\ pc[Receiver] = "idle"
           /\ rx_result[Receiver] = "TRANSPORT_RX_SUCCESS"
           /\ Take(buffer[Receiver], Len(message[Sender])) = message[Sender]

\* A message of three DATA segments has made the round trip.
C1_Witness ==
    /\ TxReturned
    /\ AllHeard
    /\ Len(message[Sender]) = MaxIdealLen
    /\ tx_result[Sender] = "TRANSPORT_TX_SUCCESS"
    /\ rx_result[Receiver] = "TRANSPORT_RX_SUCCESS"
    /\ buffer[Receiver] = message[Sender]

\* transport_rx has accepted a START_OF_MESSAGE and nothing after it.
AcceptedStart ==
    /\ pc[Receiver] = "rx"
    /\ state[Receiver] = RXST_Receiving
    /\ attempt_rx_result[Receiver] = "TRANSPORT_ATTEMPT_RX_SUCCESS"
    /\ At(rx_segment[Receiver], 4) = SEGID_START_OF_MESSAGE

\* C2: when transport_rx accepts a START_OF_MESSAGE, *message_len is the
\* big-endian 16-bit value of segment[5..6], the message_len of the sender.
C2_MessageLen ==
    AcceptedStart =>
        /\ out_message_len[Receiver] =
               Be16(At(rx_segment[Receiver], 5), At(rx_segment[Receiver], 6))
        /\ (AllHeard => out_message_len[Receiver] = Len(message[Sender]))

\* Exactly one ACK was dropped, and nothing else went wrong on the channel.
OneAckLost == faults = [NoFaults EXCEPT !.lostAck = 1]

\* C3: in a session of one transport_tx and one transport_rx, if the channel
\* drops exactly one ACK (of the SOM, of a DATA or of the EOM) and nothing
\* else is lost, transport_tx returns Success.  The session is one in which
\* the receiver did not time out, and the only frames nobody heard are
\* END_OF_MESSAGE segments transmitted after transport_rx had returned.
C3_AckLossSuccess ==
    (/\ TxReturned
     /\ OneAckLost
     /\ rx_calls[Receiver] = 1
     /\ rx_result[Receiver] # "TRANSPORT_RX_TIMEOUT"
     /\ missed \subseteq {SEGID_END_OF_MESSAGE})
        => tx_result[Sender] = "TRANSPORT_TX_SUCCESS"

\* The segment at the head of the receiver's transceiver is the DATA segment
\* transport_attempt_rx handled last in this call: a second copy.
SecondCopyArrives ==
    /\ pc[Receiver] = "rx"
    /\ inbox[Receiver] # << >>
    /\ HeadDest(Receiver) = MY_NETWORK_ADDR(Receiver)
    /\ SegmentOf(Head(inbox[Receiver])) = rx_segment[Receiver]
    /\ At(rx_segment[Receiver], 4) = SEGID_DATA
    /\ attempt_rx_result[Receiver] \in
          {"TRANSPORT_ATTEMPT_RX_SUCCESS", "TRANSPORT_ATTEMPT_RX_OUTDATED"}

\* The receiver takes the frame at the head of its transceiver.
ReceiverTakesHead ==
    /\ inbox'[Receiver] = Tail(inbox[Receiver])
    /\ faults' = faults

\* C4: when the same DATA segment arrives a second time, transport_attempt_rx
\* classifies it Outdated, acknowledges it with the same complemented
\* sequence bit, and neither the buffer nor anything else transport_rx holds
\* changes: transport_rx stays blocked and does not see the duplicate.
C4_AtMostOnce ==
    [][(SecondCopyArrives /\ ReceiverTakesHead) =>
          /\ attempt_rx_result'[Receiver] = "TRANSPORT_ATTEMPT_RX_OUTDATED"
          /\ ack_seg'[Receiver] = ack_seg[Receiver]
          /\ At(ack_seg'[Receiver], 4) = SEGID_ACK
          /\ At(ack_seg'[Receiver], 1) = Toggle(At(rx_segment[Receiver], 1))
          /\ buffer' = buffer
          /\ state' = state
          /\ rx_seq' = rx_seq
          /\ pc'[Receiver] = "rx"
          /\ << rx_result, out_message_len, out_source_port >>' =
                << rx_result, out_message_len, out_source_port >>]_vars

\* The ACK of a DATA segment was lost, the retransmitted copy was classified
\* Outdated, and the buffer holds the payload of the first copy.
C4_Witness ==
    /\ faults.lostAck = 1
    /\ pc[Receiver] = "rx"
    /\ attempt_rx_result[Receiver] = "TRANSPORT_ATTEMPT_RX_OUTDATED"
    /\ At(rx_segment[Receiver], 4) = SEGID_DATA
    /\ At(rx_segment[Receiver], 6) = 0
    /\ buffer[Receiver][1] = message[Sender][1]
    /\ tx_count[Sender] >= 2

\* C5: a segment is transmitted at most TRANSPORT_TX_ATTEMPT_LIMIT (10)
\* times, and when transport_tx returns ReachedAttemptLimit the segment was
\* transmitted exactly 10 times, none of which ended in Success or Err.
C5_AttemptLimit ==
    /\ tx_count[Sender] <= TRANSPORT_TX_ATTEMPT_LIMIT
    /\ pc[Sender] = "tx" => tx_count[Sender] = transmit_attempts[Sender]
    /\ tx_result[Sender] = "TRANSPORT_TX_REACHED_ATTEMPT_LIMIT" =>
          /\ tx_count[Sender] = TRANSPORT_TX_ATTEMPT_LIMIT
          /\ result[Sender] \in {"TRANSPORT_ATTEMPT_TX_NOT_ACKNOWLEDGED",
                                 "TRANSPORT_ATTEMPT_TX_NOT_AN_ACK",
                                 "TRANSPORT_ATTEMPT_TX_OLD_ACK"}

\* The receiver never listened: the START_OF_MESSAGE went out ten times.
C5_Witness ==
    /\ tx_result[Sender] = "TRANSPORT_TX_REACHED_ATTEMPT_LIMIT"
    /\ At(segment[Sender], 4) = SEGID_START_OF_MESSAGE
    /\ tx_count[Sender] = TRANSPORT_TX_ATTEMPT_LIMIT
    /\ rx_calls[Receiver] = 0

\* C6: every call of transport_tx eventually returns, whatever the channel
\* and the peers do (total loss, duplicated frames, traffic for other nodes
\* arriving while it waits for an ACK).
C6_TxReturns == (pc[Sender] = "tx") ~> (pc[Sender] = "idle")

\* C7: every call of transport_rx with a finite timeout eventually returns,
\* whatever the channel and the transceiver do (repeated duplicate segments,
\* repeated receive errors).
C7_RxReturns == (pc[Receiver] = "rx") ~> (pc[Receiver] = "idle")

\* The segment identifier, and the offset a DATA segment carries.
SegId(seg) == At(seg, 4)
DataOffset(seg) == Be16(At(seg, 5), At(seg, 6))

\* No call of transport_tx starts in this step.
SameTxCall == tx_calls' = tx_calls

\* The sender goes on to the next segment of the message.
NextSegment ==
    /\ SameTxCall
    /\ pc[Sender] = "tx"
    /\ pc'[Sender] = "tx"
    /\ segment'[Sender] # segment[Sender]

\* transport_tx returns Success.
SuccessReturn ==
    /\ pc[Sender] = "tx"
    /\ pc'[Sender] = "idle"
    /\ tx_result'[Sender] = "TRANSPORT_TX_SUCCESS"

\* In this step the sender took from its transceiver an ACK that carries the
\* complement of the sequence bit of the segment it had transmitted.
AckedNow ==
    /\ inbox[Sender] # << >>
    /\ hopefully_an_ack'[Sender] =
          NetworkPayload(PacketOf(Head(inbox[Sender])), ACK_SEGMENT_HEARDER_LEN)
    /\ SegId(hopefully_an_ack'[Sender]) = SEGID_ACK
    /\ At(hopefully_an_ack'[Sender], 1) = Toggle(At(segment[Sender], 1))
    /\ result'[Sender] = "TRANSPORT_ATTEMPT_TX_SUCCESS"

\* C8: within one transport_tx call the sender transmits the next segment
\* only in a step in which it received an ACK with the complement of the
\* current segment's sequence bit; the first segment is the SOM, a SOM or a
\* DATA is followed by a DATA of no smaller offset or by the EOM, and
\* transport_tx returns Success only from the acknowledged EOM.
C8_StopAndWait ==
    [][/\ ~SameTxCall => SegId(segment'[Sender]) = SEGID_START_OF_MESSAGE
       /\ NextSegment =>
             /\ AckedNow
             /\ SegId(segment[Sender]) \in {SEGID_START_OF_MESSAGE, SEGID_DATA}
             /\ SegId(segment'[Sender]) \in {SEGID_DATA, SEGID_END_OF_MESSAGE}
             /\ (SegId(segment[Sender]) = SEGID_DATA
                   /\ SegId(segment'[Sender]) = SEGID_DATA)
                   => DataOffset(segment'[Sender]) >= DataOffset(segment[Sender])
       /\ SuccessReturn =>
             /\ AckedNow
             /\ SegId(segment[Sender]) = SEGID_END_OF_MESSAGE]_vars

\* The second DATA segment is out, after the first was transmitted again
\* because a frame was lost and then acknowledged.
C8_Witness ==
    /\ pc[Sender] = "tx"
    /\ SegId(segment[Sender]) = SEGID_DATA
    /\ DataOffset(segment[Sender]) = MAX_SEGMENT_LEN - DATA_SEGMENT_HEADER_LEN
    /\ result[Sender] = "TRANSPORT_ATTEMPT_TX_SUCCESS"
    /\ FaultCount = 1

\* The number of the segment within its message: SOM 0, the DATA segments
\* from 1, EOM last.
SegIndex(seg, message_len) ==
    LET per == MAX_SEGMENT_LEN - DATA_SEGMENT_HEADER_LEN
    IN  IF SegId(seg) = SEGID_START_OF_MESSAGE THEN 0
        ELSE IF SegId(seg) = SEGID_DATA THEN 1 + (DataOffset(seg) \div per)
        ELSE 1 + ((message_len + per - 1) \div per)

\* The sender has moved past a segment: it was acknowledged.
Acknowledged == NextSegment \/ SuccessReturn

\* C9: current_seq_num is 0 when transport_tx starts, stays in {0,1}, is
\* toggled in every step that acknowledges a segment and changes in no other
\* step of the call, so the k-th segment of a message and all its
\* retransmissions carry sequence bit k mod 2.
C9_SenderSeq ==
    /\ [](/\ current_seq_num[Sender] \in {0, 1}
          /\ pc[Sender] = "tx" =>
                /\ At(segment[Sender], 1) = current_seq_num[Sender]
                /\ current_seq_num[Sender] =
                      SegIndex(segment[Sender], Len(message[Sender])) % 2)
    /\ [][/\ ~SameTxCall => current_seq_num'[Sender] = 0
          /\ (SameTxCall /\ Acknowledged) =>
                current_seq_num'[Sender] = Toggle(current_seq_num[Sender])
          /\ (SameTxCall /\ ~Acknowledged) =>
                current_seq_num'[Sender] = current_seq_num[Sender]]_vars

\* The EOM of a message of two DATA segments is being transmitted a second
\* time, with sequence bit 1.
C9_Witness ==
    /\ pc[Sender] = "tx"
    /\ Len(message[Sender]) = MaxMsgLen
    /\ SegId(segment[Sender]) = SEGID_END_OF_MESSAGE
    /\ current_seq_num[Sender] = 1
    /\ tx_count[Sender] = 2

\* transport_attempt_rx of the receiver handles a segment in this step.
RxAttempt ==
    /\ pc[Receiver] = "rx"
    /\ inbox[Receiver] # << >>
    /\ HeadDest(Receiver) = MY_NETWORK_ADDR(Receiver)
    /\ ReceiverTakesHead

\* That attempt returns Success.
RxSuccess == attempt_rx_result'[Receiver] = "TRANSPORT_ATTEMPT_RX_SUCCESS"

\* C10 as claimed: rx_seq is toggled exactly when transport_attempt_rx
\* returns Success.
C10_ToggledExactlyOnSuccess ==
    [][RxAttempt => (RxSuccess <=> rx_seq'[Receiver] = Toggle(rx_seq[Receiver]))]_vars

\* C10 as amended: rx_seq stays in {0,1}; it changes in no step but a Success
\* of transport_attempt_rx (not on Outdated, Timeout or Err, not when
\* transport_rx is called or returns); on Success it becomes the complement
\* of the accepted segment's sequence bit, which toggles it for DATA and
\* END_OF_MESSAGE, while a START_OF_MESSAGE first sets it to its own bit.
C10_ReceiverSeq ==
    /\ [](rx_seq[Receiver] \in {0, 1})
    /\ [][/\ (RxAttempt /\ RxSuccess) =>
                /\ rx_seq'[Receiver] = Toggle(At(rx_segment'[Receiver], 1))
                /\ SegId(rx_segment'[Receiver]) # SEGID_START_OF_MESSAGE =>
                      rx_seq'[Receiver] = Toggle(rx_seq[Receiver])
          /\ ~(RxAttempt /\ RxSuccess) => rx_seq'[Receiver] = rx_seq[Receiver]]_vars

\* A START_OF_MESSAGE transmitted a second time was accepted as new while
\* rx_seq was 1, and rx_seq is 1 after it.
C10_Witness ==
    /\ AcceptedStart
    /\ rx_seq[Receiver] = 1
    /\ faults.lostAck = 1
    /\ tx_count[Sender] = 2

\* Node n forwards in this step the packet at the head of its transceiver,
\* and node m hears the frame.
Forwards(n, m) ==
    /\ m # n
    /\ pc[n] # "idle"
    /\ inbox[n] # << >>
    /\ HeadDest(n) # MY_NETWORK_ADDR(n)
    /\ inbox'[n] = Tail(inbox[n])
    /\ Len(inbox'[m]) = Len(inbox[m]) + 1

\* C11: when network_rx receives a packet whose destination is not this
\* node, the packet it re-emits has the same length byte, the same (dest,
\* src) header bytes and the same payload bytes as the packet received.
C11_ForwardTransparent ==
    [][\A n, m \in Nodes :
          Forwards(n, m) =>
             LET got == PacketOf(Head(inbox[n]))
                 sent == PacketOf(inbox'[m][Len(inbox'[m])])
             IN  /\ At(sent, 0) = At(got, 0)
                 /\ At(sent, 1) = At(got, 1)
                 /\ At(sent, 2) = At(got, 2)
                 /\ NetworkPayload(sent, MAX_SEGMENT_LEN) =
                       NetworkPayload(got, MAX_SEGMENT_LEN)]_vars

\* network_rx of node n returns to the application in this step.
NetRxReturns(n) == pc[n] = "net_rx" /\ pc'[n] = "idle"

\* C12: whenever network_rx returns a payload to its caller, the payload was
\* taken from a packet whose destination byte is MY_NETWORK_ADDR; a step
\* that takes a packet for another node writes nothing to the caller's
\* buffer and does not return.
C12_NoForeignDelivery ==
    [][\A n \in Nodes :
          /\ NetRxReturns(n) =>
                /\ inbox[n] # << >>
                /\ HeadDest(n) = MY_NETWORK_ADDR(n)
                /\ LET got == NetworkPayload(PacketOf(Head(inbox[n])),
                                             Len(net_buffer[n]))
                   IN  Take(net_buffer'[n], Len(got)) = got
          /\ (pc[n] = "net_rx" /\ ~NetRxReturns(n)) =>
                /\ net_buffer'[n] = net_buffer[n]
                /\ net_return'[n] = net_return[n]]_vars

\* Cube B, in network_rx, has forwarded a packet for cube C and returned
\* nothing; cube C has received it.
C12_Witness ==
    /\ pc[NodeB] = "net_rx"
    /\ net_return[NodeB] = Unset
    /\ net_buffer[NodeB] = Zeros(Len(net_buffer[NodeB]))
    /\ inbox[NodeB] = << >>
    /\ net_tx_calls[NodeA] = 1
    /\ net_return[NodeC] # Unset

\* C13: a payload cube A sends with network_tx to cube C, which it reaches
\* through the forwarder B, is returned by C's network_rx with the payload
\* length and the payload bytes A passed to network_tx.
C13_MultiHop ==
    (net_tx_calls[NodeA] = 1 /\ net_return[NodeC] # Unset) =>
        /\ net_return[NodeC] = Len(net_payload[NodeA])
        /\ Take(net_buffer[NodeC], net_return[NodeC]) =
              Take(net_payload[NodeA], Len(net_buffer[NodeC]))

\* network_rx of the sender reports an error in this step.
TxReceiveError == faults'.txErr = faults.txErr + 1

\* C14: if network_rx reports an error while the sender waits for an ACK,
\* transport_attempt_tx returns Err, transport_keep_trying_to_tx returns at
\* once without another attempt, and transport_tx returns Err without
\* transmitting any further segment.
C14_TxErrSurfaced ==
    /\ [](tx_result[Sender] = "TRANSPORT_TX_ERROR" =>
             /\ pc[Sender] = "idle"
             /\ result[Sender] = "TRANSPORT_ATTEMPT_TX_ERROR")
    /\ [][TxReceiveError =>
             /\ pc[Sender] = "tx"
             /\ result'[Sender] = "TRANSPORT_ATTEMPT_TX_ERROR"
             /\ pc'[Sender] = "idle"
             /\ tx_result'[Sender] = "TRANSPORT_TX_ERROR"
             /\ inbox' = inbox
             /\ << transmit_attempts, tx_count, segment, current_seq_num,
                   bytes_remaining, missed >>' =
                   << transmit_attempts, tx_count, segment, current_seq_num,
                      bytes_remaining, missed >>]_vars

\* transport_tx returned Err while a DATA segment waited for its ACK.
C14_Witness ==
    /\ tx_result[Sender] = "TRANSPORT_TX_ERROR"
    /\ faults.txErr = 1
    /\ SegId(segment[Sender]) = SEGID_DATA
    /\ tx_count[Sender] = 1

\* C15: if network_rx reports an error on every attempt, transport_rx
\* returns Err to its caller.
C15_RxErrSurfaced ==
    (pc[Receiver] = "rx") ~> (rx_result[Receiver] = "TRANSPORT_RX_ERROR")

\* network_rx of the receiver times out in this step.
RxTimesOut ==
    /\ pc[Receiver] = "rx"
    /\ attempt_rx_result'[Receiver] = "TRANSPORT_ATTEMPT_RX_TIMEOUT"

\* C17: transport_rx returns Timeout whenever network_rx times out, in Idle
\* as well as in Receiving (what was received of a message stays in the
\* buffer and is abandoned), without another attempt and without
\* transmitting an ACK for that attempt.
C17_RxTimeout ==
    /\ [](rx_result[Receiver] = "TRANSPORT_RX_TIMEOUT" =>
             /\ pc[Receiver] = "idle"
             /\ attempt_rx_result[Receiver] = "TRANSPORT_ATTEMPT_RX_TIMEOUT")
    /\ [][RxTimesOut =>
             /\ pc'[Receiver] = "idle"
             /\ rx_result'[Receiver] = "TRANSPORT_RX_TIMEOUT"
             /\ inbox' = inbox
             /\ << ack_seg, missed, buffer, state, rx_seq, rx_segment >>' =
                   << ack_seg, missed, buffer, state, rx_seq, rx_segment >>]_vars

\* transport_rx timed out in Receiving, with the first DATA segment of a
\* longer message in its buffer.
C17_Witness ==
    /\ rx_result[Receiver] = "TRANSPORT_RX_TIMEOUT"
    /\ state[Receiver] = RXST_Receiving
    /\ SegId(rx_segment[Receiver]) = SEGID_DATA
    /\ Len(message[Sender]) = MaxMsgLen
    /\ buffer[Receiver][1] = message[Sender][1]

\* network_rx of the sender returns in this step a segment addressed to it.
TxTakesSegment ==
    /\ pc[Sender] = "tx"
    /\ inbox[Sender] # << >>
    /\ HeadDest(Sender) = MY_NETWORK_ADDR(Sender)
    /\ inbox'[Sender] = Tail(inbox[Sender])

\* network_rx of the sender times out in this step.
TxTimesOut ==
    /\ pc[Sender] = "tx"
    /\ inbox[Sender] = << >>
    /\ SameTxCall
    /\ (transmit_attempts'[Sender] # transmit_attempts[Sender]
          \/ pc'[Sender] = "idle")

\* C16: what network_tx reported never decides the outcome of an attempt:
\* transport_attempt_tx returns the classification of what network_rx
\* returned, whether network_tx reported success or failure, and never
\* TRANSMIT_FAILED.
C16_TxReportIgnored ==
    /\ [](result[Sender] # "TRANSPORT_ATTEMPT_TX_TRANSMIT_FAILED")
    /\ [][/\ TxTakesSegment =>
                result'[Sender] =
                   ClassifyAck(NetworkPayload(PacketOf(Head(inbox[Sender])),
                                              ACK_SEGMENT_HEARDER_LEN),
                               current_seq_num[Sender])
          /\ TxTimesOut =>
                result'[Sender] = "TRANSPORT_ATTEMPT_TX_NOT_ACKNOWLEDGED"]_vars

\* transport_tx returned Success for a message of two DATA segments although
\* every network_tx call reported a failure.
C16_Witness ==
    /\ net_tx_reports = {"NETWORK_TX_FAILURE"}
    /\ net_tx_result[Sender] = "NETWORK_TX_FAILURE"
    /\ TxReturned
    /\ tx_result[Sender] = "TRANSPORT_TX_SUCCESS"
    /\ Len(message[Sender]) = MaxMsgLen

\* C18: a timeout of the transceiver's timed receive is reported by
\* data_link_rx as an outcome distinct from a successful receive (it returns
\* false), and on timeout the caller's buffer is not filled from the
\* receive frame.
C18_DllTimeout ==
    [][(trx_outcome = "none" /\ trx_outcome' = "TRX_RECEPTION_TIMEOUT") =>
          /\ dl_return' = "false"
          /\ dl_buffer' = dl_buffer]_vars

\* The sender has a DATA segment in flight.
SendingData == pc[Sender] = "tx" /\ SegId(segment[Sender]) = SEGID_DATA

\* The payload bytes a DATA segment carries.
DataPayload(seg) == SubSeq(seg, DATA_SEGMENT_HEADER_LEN + 1, Len(seg))

\* The most payload bytes of a DATA segment.
DataRoom == MAX_SEGMENT_LEN - DATA_SEGMENT_HEADER_LEN

\* ceil(a / b)
CeilDiv(a, b) == (a + b - 1) \div b

\* The DATA segment in flight starts at a multiple of 21 below L, carries
\* min(remaining, 21) bytes of the message from that offset, and announces
\* both in segment[0] and segment[5..6].
DataLayout ==
    SendingData =>
        LET seg == segment[Sender]
            L == Len(message[Sender])
            offset == DataOffset(seg)
            len == Min(L - offset, DataRoom)
        IN  /\ offset % DataRoom = 0
            /\ offset < L
            /\ At(seg, 0) = DATA_SEGMENT_HEADER_LEN + len
            /\ Len(seg) = DATA_SEGMENT_HEADER_LEN + len
            /\ At(seg, 5) = offset \div 256
            /\ At(seg, 6) = offset % 256
            /\ DataPayload(seg) = SubSeq(message[Sender], offset + 1, offset + len)

\* The order of the segments of one call: after the START_OF_MESSAGE the
\* DATA segment of offset 0, after the DATA segment of offset o the one of
\* offset o + 21, and after the ceil(L / 21)-th the END_OF_MESSAGE.
DataOrder ==
    LET old == segment[Sender]
        new == segment'[Sender]
        L == Len(message[Sender])
    IN  /\ NextSegment =>
              CASE SegId(old) = SEGID_START_OF_MESSAGE ->
                      IF L > 0
                      THEN SegId(new) = SEGID_DATA /\ DataOffset(new) = 0
                      ELSE SegId(new) = SEGID_END_OF_MESSAGE
                [] SegId(old) = SEGID_DATA ->
                      IF DataOffset(old) + DataRoom < L
                      THEN /\ SegId(new) = SEGID_DATA
                           /\ DataOffset(new) = DataOffset(old) + DataRoom
                      ELSE /\ SegId(new) = SEGID_END_OF_MESSAGE
                           /\ DataOffset(old) \div DataRoom + 1 = CeilDiv(L, DataRoom)
                [] OTHER -> FALSE
        /\ SuccessReturn => SegId(old) = SEGID_END_OF_MESSAGE

\* C19: for a message of length L, transport_tx emits exactly ceil(L / 21)
\* distinct DATA segments (none when L = 0); the j-th carries
\* min(remaining, 21) payload bytes copied from message offset 21 * j, its
\* segment[0] is 7 plus the payload length and its bytes 5..6 are the
\* big-endian offset, so the DATA payloads cover [0, L) exactly once in
\* increasing order.
C19_Segmentation == []DataLayout /\ [][DataOrder]_vars

\* The third DATA segment of a message of 50 bytes is in flight: offset 42,
\* 8 bytes.
C19_Witness ==
    /\ SendingData
    /\ Len(message[Sender]) = 50
    /\ DataOffset(segment[Sender]) = 42
    /\ At(segment[Sender], 0) = 15
    /\ DataPayload(segment[Sender]) = SubSeq(message[Sender], 43, 50)

\* The k-th segment of scenario S1.
S1Expected(k, seg) ==
    CASE k = 1 -> seg = << 7, 0, 10, 60, 7, 0, 15 >>
      [] k = 2 -> SegId(seg) = 10 /\ At(seg, 1) = 1
      [] k = 3 -> /\ At(seg, 0) = 22
                  /\ At(seg, 1) = 1
                  /\ SegId(seg) = 13
                  /\ At(seg, 5) = 0
                  /\ At(seg, 6) = 0
                  /\ DataPayload(seg) = S1Message
      [] k = 4 -> SegId(seg) = 10 /\ At(seg, 1) = 0
      [] k = 5 -> At(seg, 0) = 5 /\ At(seg, 1) = 0 /\ SegId(seg) = 9
      [] k = 6 -> SegId(seg) = 10 /\ At(seg, 1) = 1
      [] OTHER -> FALSE

AttemptRxTakes ==
    /\ pc[Receiver] = "rx"
    /\ inbox[Receiver] # << >>
    /\ HeadDest(Receiver) = MY_NETWORK_ADDR(Receiver)
    /\ ReceiverTakesHead

\* The frame in which the receiver's acknowledgement ack travels to port.
AckFrame(ack, port) ==
    DataLinkFrame(NetworkPacket(ack, ACK_SEGMENT_HEARDER_LEN,
                                resolve_network_addr(port),
                                MY_NETWORK_ADDR(Receiver)),
                  ACK_SEGMENT_HEARDER_LEN + PACKET_HEADER_LEN)

\* In this step exactly one frame went out, carrying ack to node `to`: it
\* joined the frames of `to`, or `to` was not receiving and it is missed.
OneAckSent(ack, to) ==
    /\ \A m \in Nodes \ {to, Receiver} : inbox'[m] = inbox[m]
    /\ IF pc[to] # "idle" /\ Len(inbox[to]) < MaxInbox
       THEN /\ inbox'[to] = Append(inbox[to], AckFrame(ack, to))
            /\ missed' = missed
       ELSE /\ inbox'[to] = inbox[to]
            /\ missed' = missed \cup {SEGID_ACK}

\* C21: every segment that network_rx delivers to transport_attempt_rx is
\* answered by exactly one ACK: its sequence bit is the complement of the
\* received segment's bit whatever rx_seq is, its destination port is the
\* received segment[3], its source port is MY_PORT, and it is sent for a
\* duplicate (Outdated) as well as for a new segment.
C21_AckAlways ==
    [][AttemptRxTakes =>
          LET seg == SegmentOf(Head(inbox[Receiver]))
              ack == ack_seg'[Receiver]
          IN  /\ rx_segment'[Receiver] = seg
              /\ attempt_rx_result'[Receiver] \in
                    {"TRANSPORT_ATTEMPT_RX_SUCCESS", "TRANSPORT_ATTEMPT_RX_OUTDATED"}
              /\ Len(ack) = ACK_SEGMENT_HEARDER_LEN
              /\ At(ack, 0) = ACK_SEGMENT_HEARDER_LEN
              /\ At(ack, 1) = 1 - At(seg, 1)
              /\ At(ack, 2) = At(seg, 3)
              /\ At(ack, 3) = MY_PORT(Receiver)
              /\ At(ack, 4) = SEGID_ACK
              /\ OneAckSent(ack, At(seg, 3))]_vars

\* A duplicate was classified Outdated, and its ACK, with the complement of
\* its sequence bit, which is not the complement of rx_seq, is with the sender.
C21_Witness ==
    /\ pc[Receiver] = "rx"
    /\ attempt_rx_result[Receiver] = "TRANSPORT_ATTEMPT_RX_OUTDATED"
    /\ rx_seq[Receiver] # At(rx_segment[Receiver], 1)
    /\ At(ack_seg[Receiver], 1) = rx_seq[Receiver]
    /\ inbox[Sender] # << >>
    /\ inbox[Sender][Len(inbox[Sender])] =
          AckFrame(ack_seg[Receiver], At(rx_segment[Receiver], 3))

\* The segment transport_attempt_rx of the receiver is about to take.
HeadSegment == SegmentOf(Head(inbox[Receiver]))

\* The sender's first call was cut short and its second call has returned,
\* all within one transport_rx that did not time out, and every segment the
\* sender transmitted was heard.
RestartedAndReturned ==
    /\ tx_calls[Sender] = 2
    /\ pc[Sender] = "idle"
    /\ faults.txErr = 1
    /\ rx_calls[Receiver] = 1
    /\ rx_result[Receiver] # "TRANSPORT_RX_TIMEOUT"
    /\ missed \subseteq {SEGID_ACK}

\* C22: a START_OF_MESSAGE with sequence bit s, received in any receiver
\* state and with any prior rx_seq, sets rx_seq to s before the duplicate
\* check, so it is never classified Outdated and rx_seq is 1 - s afterwards;
\* a sender that restarts mid-transfer with current_seq_num 0 then completes
\* its message with transport_rx returning Success.
C22_StartResync ==
    /\ [][(AttemptRxTakes /\ SegId(HeadSegment) = SEGID_START_OF_MESSAGE) =>
            /\ attempt_rx_result'[Receiver] = "TRANSPORT_ATTEMPT_RX_SUCCESS"
            /\ rx_seq'[Receiver] = 1 - At(HeadSegment, 1)
            /\ state'[Receiver] = RXST_Receiving]_vars
    /\ [](RestartedAndReturned =>
            /\ tx_result[Sender] = "TRANSPORT_TX_SUCCESS"
            /\ pc[Receiver] = "idle"
            /\ rx_result[Receiver] = "TRANSPORT_RX_SUCCESS")

\* Only cube A sent anything.  Its first call was cut short before the ACK
\* of a segment the receiver had accepted went out; the restarted sender's
\* two DATA segments arrived and both calls returned Success.
C22_Witness ==
    /\ RestartedAndReturned
    /\ missed = {SEGID_ACK}
    /\ out_source_port[Receiver] = MY_PORT(Sender)
    /\ Len(message[Sender]) = MaxMsgLen
    /\ tx_result[Sender] = "TRANSPORT_TX_SUCCESS"
    /\ rx_result[Receiver] = "TRANSPORT_RX_SUCCESS"
    /\ Take(buffer[Receiver], SmallBuf) = Take(message[Sender], SmallBuf)

\* What a caller of transport_rx gets to see.
RxOutputs == << state, buffer, out_message_len, out_source_port, rx_result >>

\* C23: in state Idle transport_rx accepts only a START_OF_MESSAGE: a DATA,
\* END_OF_MESSAGE or ACK segment received in Idle leaves the state Idle and
\* leaves the buffer, *message_len and *source_port unchanged, and
\* transport_rx does not return on it.
C23_IdleOnlyStart ==
    [][(/\ AttemptRxTakes
        /\ state[Receiver] = RXST_Idle
        /\ SegId(HeadSegment) \in {SEGID_DATA, SEGID_END_OF_MESSAGE, SEGID_ACK}) =>
          /\ state'[Receiver] = RXST_Idle
          /\ RxOutputs' = RxOutputs
          /\ pc'[Receiver] = "rx"]_vars

\* A DATA segment that reaches into the buffer, with the sequence bit the
\* receiver expected, went through the switch in Idle: nothing was written.
C23_Witness ==
    /\ pc[Receiver] = "rx"
    /\ state[Receiver] = RXST_Idle
    /\ attempt_rx_result[Receiver] = "TRANSPORT_ATTEMPT_RX_SUCCESS"
    /\ SegId(rx_segment[Receiver]) = SEGID_DATA
    /\ DataOffset(rx_segment[Receiver]) = 0
    /\ buffer[Receiver] = Zeros(SmallBuf)
    /\ out_source_port[Receiver] = Unset
    /\ out_message_len[Receiver] = Unset

\* C24: a stray ACK segment received while transport_rx is in Receiving is
\* ignored: the state, the buffer and *message_len are as they were, and so
\* is rx_seq, which decides whether the sender's next new DATA or
\* END_OF_MESSAGE segment is accepted.
C24_StrayAckIgnored ==
    [][(/\ AttemptRxTakes
        /\ state[Receiver] = RXST_Receiving
        /\ SegId(HeadSegment) = SEGID_ACK) =>
          /\ RxOutputs' = RxOutputs
          /\ pc'[Receiver] = "rx"
          /\ rx_seq'[Receiver] = rx_seq[Receiver]]_vars

\* C25: a START_OF_MESSAGE received in Receiving updates *message_len only
\* (to what the Idle case would have written for it): the state stays
\* Receiving, and *source_port and the bytes already written to the buffer
\* are left unchanged.
C25_RestartFrame ==
    [][(/\ AttemptRxTakes
        /\ state[Receiver] = RXST_Receiving
        /\ SegId(HeadSegment) = SEGID_START_OF_MESSAGE) =>
          /\ out_message_len'[Receiver] \in
                ShiftLenOutcomes(At(HeadSegment, 5), At(HeadSegment, 6))
          /\ state'[Receiver] = RXST_Receiving
          /\ out_source_port' = out_source_port
          /\ buffer' = buffer
          /\ rx_result' = rx_result
          /\ pc'[Receiver] = "rx"]_vars

\* Cube A started a message and two of its bytes are in the buffer; then
\* cube C's START_OF_MESSAGE with another length arrived: *message_len is
\* C's, *source_port is still A's, and the bytes are still there.
C25_Witness ==
    /\ pc[Receiver] = "rx"
    /\ state[Receiver] = RXST_Receiving
    /\ attempt_rx_result[Receiver] = "TRANSPORT_ATTEMPT_RX_SUCCESS"
    /\ SegId(rx_segment[Receiver]) = SEGID_START_OF_MESSAGE
    /\ At(rx_segment[Receiver], 3) = MY_PORT(NodeC)
    /\ At(rx_segment[Receiver], 5) = 1
    /\ At(rx_segment[Receiver], 6) = 1
    /\ out_message_len[Receiver] = 512
    /\ out_source_port[Receiver] = MY_PORT(NodeA)
    /\ data_copied[Receiver]
    /\ Take(buffer[Receiver], 2) = << 101, 102 >>

\* transport_attempt_rx hands a new DATA segment to the Receiving case.
DataAccepted ==
    /\ AttemptRxTakes
    /\ state[Receiver] = RXST_Receiving
    /\ SegId(HeadSegment) = SEGID_DATA
    /\ attempt_rx_result'[Receiver] = "TRANSPORT_ATTEMPT_RX_SUCCESS"

\* Index k of the buffer (from 1) is byte i of the payload of a DATA segment
\* with offset o and payload length p.
Covers(seg, k) ==
    LET o == DataOffset(seg)
        p == At(seg, 0) - DATA_SEGMENT_HEADER_LEN
    IN  (k - 1) >= o /\ (k - 1) - o < p

\* C26: for a DATA segment accepted in Receiving with offset o and payload
\* length p = segment[0] - DATA_SEGMENT_HEADER_LEN, transport_rx writes
\* payload byte i to buffer[o + i] for exactly those i < p with
\* o + i < buf_len, and writes no index >= buf_len, for every offset and
\* length a received segment can carry.
C26_DataCopyClamped ==
    [][DataAccepted =>
          LET seg == HeadSegment
              old == buffer[Receiver]
              new == buffer'[Receiver]
          IN  /\ Len(new) = Len(old)
              /\ \A k \in 1..Len(old) :
                    IF Covers(seg, k)
                    THEN LET at == (k - 1) - DataOffset(seg) + DATA_SEGMENT_HEADER_LEN
                         IN  at < Len(seg) /\ new[k] = At(seg, at)
                    ELSE new[k] = old[k]]_vars

\* byte is the byte at index k of a message the sender was given in one of
\* its transport_tx calls so far (the message of call c is MessageOf(L, c));
\* for the latest call the index lies within the message.
Belongs(k, byte) ==
    \E c \in 0..(tx_calls[Sender] - 1) :
       /\ byte = MessageOf(k, c)[k]
       /\ c = tx_calls[Sender] - 1 => k <= Len(message[Sender])

\* C27: transport_rx zeroes buffer[0..buf_len) on entry before it receives
\* anything, and afterwards a byte changes only where a DATA segment
\* accepted in this call covers it; so when transport_rx returns, with
\* Timeout as well as with Success, every byte of the buffer is zero or was
\* written from an accepted DATA segment.
C27_BufferZeroed ==
    /\ [][/\ rx_calls'[Receiver] # rx_calls[Receiver] =>
                buffer'[Receiver] = Zeros(Len(buffer'[Receiver]))
          /\ rx_calls'[Receiver] = rx_calls[Receiver] =>
                /\ Len(buffer'[Receiver]) = Len(buffer[Receiver])
                /\ \A k \in 1..Len(buffer[Receiver]) :
                      buffer'[Receiver][k] # buffer[Receiver][k] =>
                         DataAccepted /\ Covers(HeadSegment, k)]_vars
    /\ []((pc[Receiver] = "idle" /\ rx_calls[Receiver] >= 1) =>
            /\ ~data_copied[Receiver] =>
                   buffer[Receiver] = Zeros(Len(buffer[Receiver]))
            /\ \A k \in 1..Len(buffer[Receiver]) :
                   buffer[Receiver][k] = 0 \/ Belongs(k, buffer[Receiver][k]))

\* transport_rx accepted the first DATA segment of a message of MaxMsgLen
\* bytes and then timed out: the last byte of its buffer, which no segment
\* covered, is zero.
C27_Witness ==
    /\ pc[Receiver] = "idle"
    /\ rx_result[Receiver] = "TRANSPORT_RX_TIMEOUT"
    /\ Len(buffer[Receiver]) = MaxMsgLen
    /\ Len(message[Sender]) = MaxMsgLen
    /\ data_copied[Receiver]
    /\ Take(buffer[Receiver], DataRoom) = Take(message[Sender], DataRoom)
    /\ buffer[Receiver][MaxMsgLen] = 0

\* transport_rx of the receiver returns Success in this step.
RxSuccessReturn ==
    /\ pc[Receiver] = "rx"
    /\ pc'[Receiver] = "idle"
    /\ rx_result'[Receiver] = "TRANSPORT_RX_SUCCESS"

\* C28: transport_rx returns Success only upon an END_OF_MESSAGE accepted in
\* Receiving, hence only after a START_OF_MESSAGE was accepted earlier in the
\* same call (which alone leaves Idle); an END_OF_MESSAGE directly after the
\* START_OF_MESSAGE, with no DATA segment between, yields Success with an
\* all-zero buffer.
C28_SuccessOnlyOnEnd ==
    /\ [][/\ RxSuccessReturn =>
                /\ AttemptRxTakes
                /\ SegId(HeadSegment) = SEGID_END_OF_MESSAGE
                /\ state[Receiver] = RXST_Receiving
                /\ attempt_rx_result'[Receiver] = "TRANSPORT_ATTEMPT_RX_SUCCESS"
                /\ buffer' = buffer
          /\ (state[Receiver] = RXST_Idle /\ state'[Receiver] = RXST_Receiving) =>
                /\ AttemptRxTakes
                /\ SegId(HeadSegment) = SEGID_START_OF_MESSAGE
                /\ attempt_rx_result'[Receiver] = "TRANSPORT_ATTEMPT_RX_SUCCESS"
          /\ rx_calls'[Receiver] # rx_calls[Receiver] =>
                state'[Receiver] = RXST_Idle]_vars
    /\ []((rx_result[Receiver] = "TRANSPORT_RX_SUCCESS" /\ ~data_copied[Receiver]) =>
            buffer[Receiver] = Zeros(Len(buffer[Receiver])))

\* transport_rx returned Success on an END_OF_MESSAGE that came directly
\* after the START_OF_MESSAGE: its buffer of SmallBuf bytes is all zero.
C28_Witness ==
    /\ pc[Receiver] = "idle"
    /\ rx_result[Receiver] = "TRANSPORT_RX_SUCCESS"
    /\ SegId(rx_segment[Receiver]) = SEGID_END_OF_MESSAGE
    /\ ~data_copied[Receiver]
    /\ out_source_port[Receiver] = MY_PORT(NodeA)
    /\ buffer[Receiver] = Zeros(SmallBuf)

\* The network_rx of transport_attempt_tx on the sender delivers the segment
\* at the head of its transceiver.
AttemptTxTakes ==
    /\ pc[Sender] = "tx"
    /\ inbox[Sender] # << >>
    /\ inbox'[Sender] = Tail(inbox[Sender])

\* The network_rx of transport_attempt_tx on the sender times out.
AttemptTxTimesOut ==
    /\ pc[Sender] = "tx"
    /\ inbox[Sender] = << >>
    /\ inbox'[Sender] = << >>
    /\ result'[Sender] # "TRANSPORT_ATTEMPT_TX_ERROR"

\* transport_attempt_tx returns on the sender in this step.
AttemptTxReturns ==
    pc[Sender] = "tx" /\ (AttemptTxTakes \/ inbox'[Sender] = inbox[Sender])

\* transport_keep_trying_to_tx tries the same segment once more, or gives up
\* at the attempt limit.
TriesAgain ==
    /\ segment'[Sender] = segment[Sender]
    /\ current_seq_num'[Sender] = current_seq_num[Sender]
    /\ transmit_attempts'[Sender] = transmit_attempts[Sender] + 1
    /\ IF transmit_attempts[Sender] < TRANSPORT_TX_ATTEMPT_LIMIT
       THEN /\ pc'[Sender] = "tx"
            /\ tx_count'[Sender] = tx_count[Sender] + 1
       ELSE /\ pc'[Sender] = "idle"
            /\ tx_result'[Sender] = "TRANSPORT_TX_REACHED_ATTEMPT_LIMIT"

\* C29: transport_attempt_tx classifies the outcome of network_rx as:
\* Timeout gives NotAcknowledged; a received segment whose identifier is not
\* ACK gives NotAnAck; an ACK whose sequence bit equals current_seq_num gives
\* OldAck; an ACK whose sequence bit is the complement of current_seq_num
\* gives Success; and keep-trying retries on exactly NotAcknowledged,
\* NotAnAck and OldAck.
C29_AttemptTxClasses ==
    [][/\ AttemptTxTimesOut =>
            result'[Sender] = "TRANSPORT_ATTEMPT_TX_NOT_ACKNOWLEDGED"
       /\ AttemptTxTakes =>
            LET got == NetworkPayload(PacketOf(Head(inbox[Sender])),
                                      ACK_SEGMENT_HEARDER_LEN)
            IN  result'[Sender] =
                   IF SegId(got) # SEGID_ACK
                   THEN "TRANSPORT_ATTEMPT_TX_NOT_AN_ACK"
                   ELSE IF At(got, 1) = current_seq_num[Sender]
                   THEN "TRANSPORT_ATTEMPT_TX_OLD_ACK"
                   ELSE IF At(got, 1) = 1 - current_seq_num[Sender]
                   THEN "TRANSPORT_ATTEMPT_TX_SUCCESS"
                   ELSE "none"
       /\ AttemptTxReturns =>
            (TriesAgain <=> result'[Sender] \in
                               {"TRANSPORT_ATTEMPT_TX_NOT_ACKNOWLEDGED",
                                "TRANSPORT_ATTEMPT_TX_NOT_AN_ACK",
                                "TRANSPORT_ATTEMPT_TX_OLD_ACK"})]_vars

\* The DATA segment went unacknowledged three times, the last time because
\* a DATA segment came in place of the ACK, and is out for the fourth time.
C29_Witness ==
    /\ pc[Sender] = "tx"
    /\ SegId(segment[Sender]) = SEGID_DATA
    /\ transmit_attempts[Sender] = 4
    /\ result[Sender] = "TRANSPORT_ATTEMPT_TX_NOT_AN_ACK"
    /\ SegId(hopefully_an_ack[Sender]) = SEGID_DATA

\* Cube A calls network_tx in this step.
NetTxCalled == net_tx_calls'[NodeA] = net_tx_calls[NodeA] + 1

\* The node whose transceiver has the data-link address of next_hop(dest) is
\* receiving and has room for a frame.
NextHopListens(dest) ==
    \E hop \in next_hop(dest) :
       \E m \in NodeAt(resolve_data_link_addr(hop)) :
          pc[m] # "idle" /\ Len(inbox[m]) < MaxInbox

\* C30: for a payload of n <= MAX_SEGMENT_LEN bytes to a neighbour,
\* network_tx emits a packet with byte 0 = n + 3, byte 1 = dest, byte 2 = src,
\* followed by the payload, to the data-link address of next_hop(dest);
\* network_rx at that destination returns n and copies min(n, buf_len)
\* payload bytes into the caller's buffer, never writing beyond buf_len.
C30_SingleHop ==
    /\ [][/\ (NetTxCalled /\ NextHopListens(NodeB)) =>
                \A hop \in next_hop(NodeB) :
                   \A m \in NodeAt(resolve_data_link_addr(hop)) :
                      LET payload == net_payload'[NodeA]
                          packet == PacketOf(inbox'[m][Len(inbox'[m])])
                      IN  /\ Len(inbox'[m]) = Len(inbox[m]) + 1
                          /\ At(packet, 0) = Len(payload) + 3
                          /\ At(packet, 1) = NodeB
                          /\ At(packet, 2) = MY_NETWORK_ADDR(NodeA)
                          /\ SubSeq(packet, 4, 3 + Len(payload)) = payload
          /\ NetRxReturns(NodeB) =>
                LET packet == PacketOf(Head(inbox[NodeB]))
                    n == At(packet, 0) - 3
                    buf_len == Len(net_buffer[NodeB])
                IN  /\ net_return'[NodeB] = n
                    /\ Len(net_buffer'[NodeB]) = buf_len
                    /\ \A k \in 1..buf_len :
                          net_buffer'[NodeB][k] =
                             IF k <= Min(n, buf_len)
                             THEN packet[3 + k]
                             ELSE net_buffer[NodeB][k]]_vars
    /\ []((net_tx_calls[NodeA] = 1 /\ net_return[NodeB] # Unset) =>
            LET n == Len(net_payload[NodeA])
                buf_len == Len(net_buffer[NodeB])
            IN  /\ net_return[NodeB] = n
                /\ net_buffer[NodeB] =
                      [k \in 1..buf_len |->
                          IF k <= Min(n, buf_len) THEN net_payload[NodeA][k] ELSE 0])

\* A payload of MAX_SEGMENT_LEN bytes was returned through a buffer of
\* SmallBuf bytes, which holds its first SmallBuf bytes.
C30_Witness ==
    /\ net_tx_calls[NodeA] = 1
    /\ pc[NodeB] = "idle"
    /\ net_return[NodeB] = MAX_SEGMENT_LEN
    /\ Len(net_payload[NodeA]) = MAX_SEGMENT_LEN
    /\ net_buffer[NodeB] = Take(net_payload[NodeA], SmallBuf)

\* Node n, in network_rx, takes the packet at the head of its transceiver.
NetRxTakes(n) ==
    /\ pc[n] = "net_rx"
    /\ inbox[n] # << >>
    /\ inbox'[n] = Tail(inbox[n])

\* The next hop of node n towards dest is receiving and has room for a frame.
HopListens(n, dest) ==
    \E hop \in NextHops(n, dest) :
       \E m \in NodeAt(resolve_data_link_addr(hop)) :
          pc[m] # "idle" /\ Len(inbox[m]) < MaxInbox

\* A frame reaches some node other than n in this step.
FrameHeardFrom(n) ==
    \E m \in Nodes \ {n} : Len(inbox'[m]) = Len(inbox[m]) + 1

\* C31: network_rx forwards a received packet if and only if its destination
\* byte differs from MY_NETWORK_ADDR: a packet for another node is handed to
\* network_tx and the receive resumes without returning or writing to the
\* caller's buffer, a packet for this node is never forwarded, and network_rx
\* returns a payload only for a packet addressed to this node.
C31_ForwardIffForeign ==
    [][\A n \in Nodes :
          /\ (NetRxTakes(n) /\ HeadDest(n) # MY_NETWORK_ADDR(n)) =>
                /\ HopListens(n, HeadDest(n)) =>
                      \E m \in Nodes \ {n} :
                         /\ Forwards(n, m)
                         /\ At(PacketOf(inbox'[m][Len(inbox'[m])]), 1) = HeadDest(n)
                /\ pc'[n] = "net_rx"
                /\ net_return'[n] = net_return[n]
                /\ net_buffer'[n] = net_buffer[n]
          /\ (NetRxTakes(n) /\ HeadDest(n) = MY_NETWORK_ADDR(n)) =>
                /\ ~FrameHeardFrom(n)
                /\ \A m \in Nodes \ {n} : inbox'[m] = inbox[m]
                /\ NetRxReturns(n)
                /\ net_return'[n] = At(PacketOf(Head(inbox[n])), 0) - PACKET_HEADER_LEN
          /\ NetRxReturns(n) =>
                NetRxTakes(n) /\ HeadDest(n) = MY_NETWORK_ADDR(n)]_vars

\* Cube B forwarded the packet for cube C, stayed in network_rx, and then
\* returned the payload of the packet that was for itself; the forwarded
\* packet waits at cube C.
C31_Witness ==
    /\ net_tx_calls[NodeA] = 2
    /\ pc[NodeB] = "idle"
    /\ net_return[NodeB] = Len(net_payload[NodeA])
    /\ pc[NodeC] = "net_rx"
    /\ Len(inbox[NodeC]) = 1
    /\ HeadDest(NodeC) = MY_NETWORK_ADDR(NodeC)

\* The segment has at most MAX_SEGMENT_LEN bytes and says so in segment[0].
SegmentFits(seg) == Len(seg) <= MAX_SEGMENT_LEN /\ At(seg, 0) = Len(seg)

\* The frame was built from a packet of at most MAX_PACKET_LEN bytes:
\* frame[0] is the payload_len data_link_tx was given, packet[0] the length
\* network_tx computed.
PacketFits(frame) ==
    /\ At(frame, 0) <= MAX_PACKET_LEN
    /\ At(PacketOf(frame), 0) = At(frame, 0)

\* Every segment the transport layer has handed to network_tx fits.
SegmentsFit ==
    \A n \in Nodes :
       /\ segment[n] # << >> => SegmentFits(segment[n])
       /\ ack_seg[n] # << >> => SegmentFits(ack_seg[n])

\* Every frame a transceiver holds fits.
PacketsFit ==
    \A n \in Nodes : \A i \in 1..Len(inbox[n]) : PacketFits(inbox[n][i])

\* C32: every segment transport_tx or transport_attempt_rx hands to
\* network_tx has length <= MAX_SEGMENT_LEN with segment[0] equal to that
\* length, and every packet handed to the data-link layer, those re-emitted
\* by the forwarder included, has length <= MAX_PACKET_LEN.
C32_SizeInvariant == SegmentsFit /\ PacketsFit

\* data_link_rx of cube B returns in this step.
DataLinkRxReturns == pc[NodeB] = "dl_rx" /\ pc'[NodeB] = "idle"

\* The bytes of a frame body data_link_rx copies to a buf_len buffer.
BodyCopied(buf_len) == Min(buf_len, TRX_PAYLOAD_LENGTH - FRAME_HEADER_LEN)

\* C33: data_link_tx always hands the transceiver a frame of exactly
\* TRX_PAYLOAD_LENGTH bytes in which the payload occupies bytes
\* 1..payload_len and every byte after the payload is zero, and returns
\* success iff the transceiver reports success; data_link_rx at the
\* addressed node copies min(buf_len, 31) bytes of the frame body, so that a
\* payload of at most 31 bytes is recovered byte for byte.
C33_FramingRoundTrip ==
    /\ [](dl_frame # << >> =>
            LET payload_len == Len(dl_payload)
                fits == Min(payload_len, TRX_PAYLOAD_LENGTH - FRAME_HEADER_LEN)
            IN  /\ Len(dl_frame) = TRX_PAYLOAD_LENGTH
                /\ \A i \in 0..(fits - 1) : At(dl_frame, i + 1) = At(dl_payload, i)
                /\ \A i \in (fits + 1)..(TRX_PAYLOAD_LENGTH - 1) : At(dl_frame, i) = 0
                /\ dl_tx_return = "true" <=> trx_tx_outcome = "TRX_TRANSMISSION_SUCCESS"
                /\ dl_tx_return \in {"true", "false"})
    /\ [][DataLinkRxReturns =>
            LET rxframe == Head(inbox[NodeB])
                buf_len == Len(dl_buffer)
            IN  /\ dl_return' = "true"
                /\ Len(dl_buffer') = buf_len
                /\ \A k \in 0..(buf_len - 1) :
                      At(dl_buffer', k) =
                         IF k < BodyCopied(buf_len)
                         THEN At(rxframe, k + FRAME_HEADER_LEN)
                         ELSE At(dl_buffer, k)
                /\ (/\ rxframe = dl_frame
                    /\ Len(dl_payload) <= TRX_PAYLOAD_LENGTH - FRAME_HEADER_LEN
                    /\ Len(dl_payload) <= buf_len)
                      => Take(dl_buffer', Len(dl_payload)) = dl_payload]_vars

\* A payload of MAX_PACKET_LEN bytes, handed to a transceiver that reported
\* success, has come out of data_link_rx of cube B unchanged, through a
\* buffer longer than a frame body whose remaining bytes were left alone.
C33_Witness ==
    /\ Len(dl_payload) = MAX_PACKET_LEN
    /\ trx_tx_outcome = "TRX_TRANSMISSION_SUCCESS"
    /\ dl_tx_return = "true"
    /\ pc[NodeB] = "idle"
    /\ dl_return = "true"
    /\ Len(dl_buffer) = MaxDlBuf + SmallBuf
    /\ Take(dl_buffer, MAX_PACKET_LEN) = dl_payload
    /\ dl_buffer[MAX_PACKET_LEN + 1] = 255

\* transport_tx of the sender has returned Success and no frame is left in
\* either transceiver: nothing that was sent can still be received.
TxSuccessSettled ==
    /\ TxReturned
    /\ tx_result[Sender] = "TRANSPORT_TX_SUCCESS"
    /\ inbox[Sender] = << >>
    /\ inbox[Receiver] = << >>

\* A transport_rx call of the receiver has returned Success with the
\* sender's message in its buffer, as far as the buffer has room for it.
MessageDelivered ==
    /\ delivered[Receiver] # << >>
    /\ LET got == delivered[Receiver][1]
           room == Min(Len(message[Sender]), Len(got))
       IN  Take(got, room) = Take(message[Sender], room)

\* C34: between one sender and one receiver over a channel that may lose and
\* duplicate frames, whenever transport_tx has returned Success, a
\* transport_rx call at the destination has returned Success with
\* buffer[0..message_len) equal to the message sent (or will, while a frame
\* is still on its way); segments acknowledged by a receiver that is Idle or
\* that re-entered transport_rx in mid-message do not make the sender report
\* Success for a message that was not delivered.
C34_EndToEndAgreement == TxSuccessSettled => MessageDelivered

\* Node n, in transport_rx, takes an ACK segment from its transceiver.
TakesAck(n) ==
    /\ pc[n] = "rx"
    /\ inbox[n] # << >>
    /\ Len(inbox'[n]) = Len(inbox[n]) - 1
    /\ SegId(SegmentOf(Head(inbox[n]))) = SEGID_ACK

\* Nothing is transmitted in this step by node n.
TransmitsNothing(n) ==
    /\ \A m \in Nodes \ {n} : inbox'[m] = inbox[m]
    /\ missed' = missed

\* No transceiver holds an ACK segment.
NoAckInFlight ==
    \A n \in Nodes : \A i \in 1..Len(inbox[n]) : ~IsAckFrame(inbox[n][i])

\* C35: a node in transport_rx that receives an ACK segment does not
\* transmit an ACK in response, so two nodes that are both in transport_rx
\* do not exchange ACK segments for ever after a single stray ACK: from some
\* point on no ACK is in flight.
C35_NoAckOfAck ==
    /\ [][\A n \in Nodes : TakesAck(n) => TransmitsNothing(n)]_vars
    /\ <>[]NoAckInFlight

\* C36: transport_attempt_tx returns Success only for an ACK whose source
\* port is the dest_port of the segment being sent and whose destination
\* port is MY_PORT: an ACK with the complement sequence bit that came from a
\* third node does not advance the sender.
C36_AckOrigin ==
    [][(AttemptTxTakes /\ result'[Sender] = "TRANSPORT_ATTEMPT_TX_SUCCESS") =>
          LET ack == NetworkPayload(PacketOf(Head(inbox[Sender])),
                                    ACK_SEGMENT_HEARDER_LEN)
          IN  /\ SegId(ack) = SEGID_ACK
              /\ At(ack, 3) = dest_port[Sender]
              /\ At(ack, 2) = MY_PORT(Sender)]_vars

\* C37: when the peer restarts with a new START_OF_MESSAGE while
\* transport_rx is Receiving and then completes its message, transport_rx
\* returns Success with buffer[0..message_len) equal to the restarted
\* message and every other byte of the buffer zero: no DATA payload of the
\* abandoned first attempt remains.
C37_RestartNoStaleData ==
    (/\ RestartedAndReturned
     /\ tx_result[Sender] = "TRANSPORT_TX_SUCCESS"
     /\ pc[Receiver] = "idle"
     /\ rx_result[Receiver] = "TRANSPORT_RX_SUCCESS")
        => \A k \in 1..Len(buffer[Receiver]) :
              buffer[Receiver][k] =
                 IF k <= Len(message[Sender]) THEN message[Sender][k] ELSE 0

\* transport_tx of the sender returns in this step without Success.
TxFailsNow ==
    /\ pc[Sender] = "tx"
    /\ pc'[Sender] = "idle"
    /\ tx_result'[Sender] # "TRANSPORT_TX_SUCCESS"

\* What transport_tx of the sender has built and transmitted.
TxProgress ==
    << segment[Sender], current_seq_num[Sender], bytes_remaining[Sender],
       tx_count[Sender] >>

\* C38: once transport_keep_trying_to_tx returns ReachedAttemptLimit or Err
\* for the START_OF_MESSAGE or a DATA segment (or the END_OF_MESSAGE),
\* transport_tx returns that result at once and transmits no further
\* segment of the message: no later DATA and no END_OF_MESSAGE.
C38_AbortOnFailure ==
    /\ [][/\ TxFailsNow =>
                /\ tx_result'[Sender] =
                      IF result'[Sender] = "TRANSPORT_ATTEMPT_TX_ERROR"
                      THEN "TRANSPORT_TX_ERROR"
                      ELSE "TRANSPORT_TX_REACHED_ATTEMPT_LIMIT"
                /\ TxProgress' = TxProgress
                /\ TransmitsNothing(Sender)
          /\ (pc[Sender] = "idle" /\ tx_calls'[Sender] = tx_calls[Sender]) =>
                /\ pc'[Sender] = "idle"
                /\ TxProgress' = TxProgress
                /\ tx_result'[Sender] = tx_result[Sender]]_vars
    /\ [](/\ (pc[Sender] = "tx" => /\ result[Sender] # "TRANSPORT_ATTEMPT_TX_ERROR"
                                   /\ transmit_attempts[Sender] <= TRANSPORT_TX_ATTEMPT_LIMIT)
          /\ (TxReturned /\ result[Sender] = "TRANSPORT_ATTEMPT_TX_ERROR") =>
                tx_result[Sender] = "TRANSPORT_TX_ERROR"
          /\ (TxReturned /\ transmit_attempts[Sender] > TRANSPORT_TX_ATTEMPT_LIMIT) =>
                tx_result[Sender] = "TRANSPORT_TX_REACHED_ATTEMPT_LIMIT")

\* The first DATA segment of a message of MaxMsgLen bytes went out ten times
\* unacknowledged: transport_tx has returned ReachedAttemptLimit with one
\* byte of the message never put into a segment.
C38_Witness ==
    /\ TxReturned
    /\ tx_result[Sender] = "TRANSPORT_TX_REACHED_ATTEMPT_LIMIT"
    /\ SegId(segment[Sender]) = SEGID_DATA
    /\ bytes_remaining[Sender] = MaxMsgLen - DataRoom
    /\ tx_count[Sender] = TRANSPORT_TX_ATTEMPT_LIMIT

\* Node n, in transport_tx, takes a frame from its transceiver in this step.
TxTakes(n) ==
    /\ pc[n] = "tx"
    /\ inbox[n] # << >>
    /\ Len(inbox'[n]) = Len(inbox[n]) - 1

\* transport_tx of n has returned ReachedAttemptLimit on its
\* START_OF_MESSAGE, transmitted TRANSPORT_TX_ATTEMPT_LIMIT times.
GaveUpOnStart(n) ==
    /\ pc[n] = "idle"
    /\ tx_result[n] = "TRANSPORT_TX_REACHED_ATTEMPT_LIMIT"
    /\ SegId(segment[n]) = SEGID_START_OF_MESSAGE
    /\ tx_count[n] = TRANSPORT_TX_ATTEMPT_LIMIT

\* C39: a node inside transport_tx never acknowledges a segment it receives
\* while waiting for an ACK: a segment that is not an ACK is consumed as
\* NotAnAck and no ACK is sent.  So when two nodes call transport_tx towards
\* each other, neither returns Success, and each call ends, without
\* deadlock, in ReachedAttemptLimit after 10 attempts of its
\* START_OF_MESSAGE.
C39_CrossedTransmitters ==
    /\ [][\A n \in EchoNodes :
             TxTakes(n) =>
                /\ SegId(SegmentOf(Head(inbox[n]))) # SEGID_ACK
                /\ result'[n] = "TRANSPORT_ATTEMPT_TX_NOT_AN_ACK"
                /\ NoAckInFlight']_vars
    /\ [](\A n \in EchoNodes :
             /\ tx_result[n] # "TRANSPORT_TX_SUCCESS"
             /\ (pc[n] = "idle" /\ tx_calls[n] >= 1) => GaveUpOnStart(n))
    /\ \A n \in EchoNodes : (pc[n] = "tx") ~> GaveUpOnStart(n)

\* Both cubes have given up, each after taking a START_OF_MESSAGE of the
\* other where it hoped for an ACK.
C39_Witness ==
    \A n \in EchoNodes :
       /\ GaveUpOnStart(n)
       /\ result[n] = "TRANSPORT_ATTEMPT_TX_NOT_AN_ACK"
       /\ SegId(hopefully_an_ack[n]) = SEGID_START_OF_MESSAGE
       /\ At(hopefully_an_ack[n], 3) = MY_PORT(Peer(n))

====
